---- MODULE Spec2Model ----
(***************************************************************************)
(* The BitTorrent client: the bencode codec (decode.rs, encode.rs,         *)
(* utils.rs), the info-hash computation of torrent.rs, magnet URIs         *)
(* (magnet.rs) and the peer sessions of http/torrent.rs and                *)
(* http/magnet.rs.                                                         *)
(*                                                                         *)
(* Bytes are integers 0..255.  A Rust String is the sequence of its code   *)
(* points; its bytes are the UTF-8 encoding of that sequence.  usize and   *)
(* isize are 64 bits wide; their values are kept as decimal digit          *)
(* sequences (most significant digit first, no leading zero) so that the   *)
(* arithmetic of the conversions keeps its width.                          *)
(*                                                                         *)
(* The specifications share the variables: Spec (the codec and            *)
(* Torrent::try_from), LoopSpec (the decoder's loops, turn by turn),       *)
(* MagnetSpec (Magnet::new), PeerSpec (the two connect_peer functions      *)
(* against a scripted peer), HandshakeSpec (the magnet handshake from the  *)
(* tracker's answer on) and MetadataSpec (parse_torrent_data).             *)
(***************************************************************************)
EXTENDS Integers, Sequences, FiniteSets, TLC

VARIABLES build, src, data, pos, pc, decoded, encoded, torrent, loop,
          uri, magnet, printed,
          wire, trace, sess

magnetVars == <<uri, magnet, printed>>

peerVars == <<wire, trace, sess>>

codecVars == <<data, pos, decoded, encoded, torrent, loop>>

vars == <<build, src, data, pos, pc, decoded, encoded, torrent, loop, magnetVars, peerVars>>

-----------------------------------------------------------------------------
(* Byte literals of the source.                                            *)

CH_0 == 48
CH_9 == 57
CH_colon == 58
CH_minus == 45
CH_d == 100
CH_e == 101
CH_i == 105
CH_l == 108

\* "pieces" and "peers", the two key names the codec special-cases.
STR_pieces == <<112, 105, 101, 99, 101, 115>>
STR_peers == <<112, 101, 101, 114, 115>>
STR_info == <<105, 110, 102, 111>>

-----------------------------------------------------------------------------
(* 64-bit machine integers as decimal digit sequences.                     *)

\* 2^64, usize::MAX + 1
TWO_64 == <<1,8,4,4,6,7,4,4,0,7,3,7,0,9,5,5,1,6,1,6>>
\* usize::MAX
USIZE_MAX == <<1,8,4,4,6,7,4,4,0,7,3,7,0,9,5,5,1,6,1,5>>
\* isize::MAX = 2^63 - 1
ISIZE_MAX == <<9,2,2,3,3,7,2,0,3,6,8,5,4,7,7,5,8,0,7>>

RECURSIVE StripZeros(_)
StripZeros(s) ==
  IF Len(s) > 1 /\ s[1] = 0 THEN StripZeros(Tail(s)) ELSE s

PadLeft(s, n) ==
  [k \in 1..n |-> IF k <= n - Len(s) THEN 0 ELSE s[k - (n - Len(s))]]

MaxOf(a, b) == IF a >= b THEN a ELSE b

RECURSIVE AddCarry(_, _, _, _)
AddCarry(a, b, k, c) ==
  IF k = 0 THEN <<>>
  ELSE LET t == a[k] + b[k] + c
       IN  Append(AddCarry(a, b, k - 1, t \div 10), t % 10)

\* a + b, exact
BigAdd(a, b) ==
  LET n == MaxOf(Len(a), Len(b)) + 1
  IN  StripZeros(AddCarry(PadLeft(a, n), PadLeft(b, n), n, 0))

RECURSIVE SubBorrow(_, _, _, _)
SubBorrow(a, b, k, c) ==
  IF k = 0 THEN <<>>
  ELSE LET t == a[k] - b[k] - c
       IN  IF t < 0 THEN Append(SubBorrow(a, b, k - 1, 1), t + 10)
                    ELSE Append(SubBorrow(a, b, k - 1, 0), t)

RECURSIVE LexLess(_, _)
LexLess(a, b) ==
  IF Len(b) = 0 THEN FALSE
  ELSE IF Len(a) = 0 THEN TRUE
  ELSE IF a[1] # b[1] THEN a[1] < b[1]
  ELSE LexLess(Tail(a), Tail(b))

\* a < b
BigLess(a, b) ==
  \/ Len(a) < Len(b)
  \/ Len(a) = Len(b) /\ LexLess(a, b)

\* a - b for a >= b, exact
BigSub(a, b) ==
  LET n == Len(a)
  IN  StripZeros(SubBorrow(a, PadLeft(b, n), n, 0))

\* b * 10^k
ShiftLeft(b, k) == [j \in 1..(Len(b) + k) |-> IF j <= Len(b) THEN b[j] ELSE 0]

RECURSIVE WrapFrom(_, _)
WrapFrom(a, k) ==
  IF BigLess(a, ShiftLeft(TWO_64, k))
  THEN IF k = 0 THEN a ELSE WrapFrom(a, k - 1)
  ELSE WrapFrom(BigSub(a, ShiftLeft(TWO_64, k)), k)

\* a mod 2^64: what a wrapping 64-bit operation leaves
Wrap64(a) == WrapFrom(a, MaxOf(Len(a) - 20, 0))

\* d * 10^p, exact, for a decimal digit d
DigitTimesPow10(d, p) ==
  IF d = 0 THEN <<0>> ELSE [k \in 1..(p + 1) |-> IF k = 1 THEN d ELSE 0]

RECURSIVE NatToBig(_)
NatToBig(n) ==
  IF n < 10 THEN <<n>> ELSE Append(NatToBig(n \div 10), n % 10)

RECURSIVE BigToNat(_)
BigToNat(s) ==
  IF Len(s) = 0 THEN 0
  ELSE 10 * BigToNat(SubSeq(s, 1, Len(s) - 1)) + s[Len(s)]

\* A signed 64-bit value: sign and magnitude; zero is not negative.
ISize(neg, mag) == [neg |-> neg /\ mag # <<0>>, mag |-> mag]

\* The isize whose two's-complement bit pattern is u (0 <= u < 2^64).
FromBits(u) ==
  IF BigLess(ISIZE_MAX, u) THEN ISize(TRUE, BigSub(TWO_64, u)) ELSE ISize(FALSE, u)

\* `i as usize`: the bit pattern of i read as unsigned.
AsUsize(i) == IF i.neg THEN BigSub(TWO_64, i.mag) ELSE i.mag

-----------------------------------------------------------------------------
(* utils.rs                                                                *)

u8_is_digit(n) == n >= CH_0 /\ n <= CH_9

\* Overflow checks are compiled in ("debug") or arithmetic wraps ("release").
Builds == {"debug", "release"}

Checked == build = "debug"

RECURSIVE UsizeLoop(_, _, _)
UsizeLoop(s, idx, ret) ==
  IF idx = Len(s) THEN [st |-> "some", v |-> ret]
  ELSE LET d == s[Len(s) - idx]
       IN  IF ~u8_is_digit(d) THEN [st |-> "none", v |-> <<0>>]
           ELSE LET pow  == DigitTimesPow10(1, idx)
                    term == DigitTimesPow10(d - CH_0, idx)
                    sum  == BigAdd(ret, term)
                    over == \/ BigLess(USIZE_MAX, pow)
                            \/ BigLess(USIZE_MAX, term)
                            \/ BigLess(USIZE_MAX, sum)
                IN  IF over /\ Checked
                    THEN [st |-> "panic", v |-> <<0>>]
                    ELSE UsizeLoop(s, idx + 1, Wrap64(sum))

char_slice_to_usize(s) == UsizeLoop(s, 0, <<0>>)

RECURSIVE IsizeLoop(_, _, _, _)
IsizeLoop(s, k, p, ret) ==
  IF k > Len(s) THEN [st |-> "some", v |-> ret]
  ELSE LET d  == s[k]
           p1 == p - 1
       IN  IF ~u8_is_digit(d) THEN [st |-> "none", v |-> <<0>>]
           ELSE LET pow  == DigitTimesPow10(1, p1)
                    term == DigitTimesPow10(d - CH_0, p1)
                    sum  == BigAdd(ret, term)
                    over == \/ BigLess(ISIZE_MAX, pow)
                            \/ BigLess(ISIZE_MAX, term)
                            \/ BigLess(ISIZE_MAX, sum)
                IN  IF over /\ Checked
                    THEN [st |-> "panic", v |-> <<0>>]
                    ELSE IsizeLoop(s, k + 1, p1, Wrap64(sum))

char_slice_to_isize(s) ==
  LET neg  == Len(s) > 0 /\ s[1] = CH_minus
      p    == IF neg THEN Len(s) - 1 ELSE Len(s)
      acc  == IsizeLoop(s, IF neg THEN 2 ELSE 1, p, <<0>>)
      bits == IF neg THEN Wrap64(BigSub(TWO_64, acc.v)) ELSE acc.v
  IN  IF acc.st = "some" THEN [st |-> "some", v |-> FromBits(bits)]
      ELSE [st |-> acc.st, v |-> ISize(FALSE, <<0>>)]

HexDigit(n) == IF n < 10 THEN CH_0 + n ELSE 87 + n

RECURSIVE encode_bytes_to_string(_)
encode_bytes_to_string(d) ==
  IF Len(d) = 0 THEN <<>>
  ELSE <<HexDigit(d[1] \div 16), HexDigit(d[1] % 16)>> \o encode_bytes_to_string(Tail(d))

HexVal(c) ==
  IF c >= 48 /\ c <= 57 THEN c - 48
  ELSE IF c >= 97 /\ c <= 102 THEN c - 87
  ELSE IF c >= 65 /\ c <= 70 THEN c - 55
  ELSE -1

RECURSIVE HexPairs(_)
HexPairs(b) ==
  IF Len(b) = 0 THEN <<>>
  ELSE <<16 * HexVal(b[1]) + HexVal(b[2])>> \o HexPairs(SubSeq(b, 3, Len(b)))

Utf8Char(c) == IF c < 128 THEN <<c>> ELSE <<192 + (c \div 64), 128 + (c % 64)>>

\* str::as_bytes
RECURSIVE Utf8(_)
Utf8(s) == IF Len(s) = 0 THEN <<>> ELSE Utf8Char(s[1]) \o Utf8(Tail(s))

\* hex::decode(s).unwrap()
decode_bytes_from_string(s) ==
  LET b == Utf8(s)
  IN  IF Len(b) % 2 = 0 /\ \A k \in 1..Len(b) : HexVal(b[k]) >= 0
      THEN [st |-> "ok", v |-> HexPairs(b)]
      ELSE [st |-> "panic", v |-> <<>>]

-----------------------------------------------------------------------------
(* serde_json::Value, as far as the codec builds it.  An object is a       *)
(* serde_json::Map, a BTreeMap<String, Value>: its entries are kept as a   *)
(* sequence of <<key, value>> in ascending key order.                      *)

Num(i) == [t |-> "num", n |-> i]
Str(s) == [t |-> "str", s |-> s]
Arr(a) == [t |-> "arr", a |-> a]
Obj(m) == [t |-> "obj", m |-> m]
NoValue == [t |-> "null"]

\* Ord for String: byte-wise comparison of the UTF-8 bytes
StrLess(a, b) == LexLess(Utf8(a), Utf8(b))

\* A map that keeps insertion order: an equal key is replaced in place, a new
\* key goes to the end.
MapInsert_InsertionOrder(m, k, v) ==
  IF \E j \in 1..Len(m) : m[j][1] = k
  THEN [j \in 1..Len(m) |-> IF m[j][1] = k THEN <<k, v>> ELSE m[j]]
  ELSE Append(m, <<k, v>>)

\* Map::insert: the entry takes its place in key order and replaces an
\* entry with an equal key.
MapInsert(m, k, v) ==
  SelectSeq(m, LAMBDA e : StrLess(e[1], k))
    \o <<<<k, v>>>>
    \o SelectSeq(m, LAMBDA e : StrLess(k, e[1]))

\* Map::get
MapHas(m, k) == \E j \in 1..Len(m) : m[j][1] = k

MapGet(m, k) == m[CHOOSE j \in 1..Len(m) : m[j][1] = k][2]

-----------------------------------------------------------------------------
(* decode.rs: DecodeContext.  The cursor pos counts from 0.                *)

\* self.pos > self.data.len() - 1; on empty data the subtraction overflows
ended(d, p) ==
  IF Len(d) = 0
  THEN [st |-> IF Checked THEN "panic" ELSE "ok", v |-> FALSE]
  ELSE [st |-> "ok", v |-> p > Len(d) - 1]

peek(d, p) ==
  LET e == ended(d, p)
  IN  IF e.st = "panic" THEN [st |-> "panic", b |-> 0]
      ELSE IF e.v THEN [st |-> "none", b |-> 0]
      ELSE IF p >= Len(d) THEN [st |-> "panic", b |-> 0]
      ELSE [st |-> "some", b |-> d[p + 1]]

position(d, p, ch) ==
  LET e    == ended(d, p)
      hits == {k \in (p + 1)..Len(d) : d[k] = ch}
  IN  IF e.st = "panic" THEN [st |-> "panic", v |-> 0]
      ELSE IF e.v \/ hits = {} THEN [st |-> "err", v |-> 0]
      ELSE [st |-> "ok", v |-> (CHOOSE k \in hits : \A j \in hits : k <= j) - (p + 1)]

\* step is a usize; pos + step may overflow
advance_many(d, p, step) ==
  LET e    == ended(d, p)
      sum  == BigAdd(NatToBig(p), step)
      over == BigLess(USIZE_MAX, sum)
      to   == Wrap64(sum)
  IN  IF e.st = "panic" THEN [st |-> "panic", v |-> <<>>, pos |-> p]
      ELSE IF e.v THEN [st |-> "none", v |-> <<>>, pos |-> p]
      ELSE IF over /\ Checked THEN [st |-> "panic", v |-> <<>>, pos |-> p]
      ELSE IF BigLess(NatToBig(Len(d)), to) THEN [st |-> "none", v |-> <<>>, pos |-> p]
      ELSE IF over THEN [st |-> "panic", v |-> <<>>, pos |-> p]
      ELSE [st |-> "some", v |-> SubSeq(d, p + 1, BigToNat(to)), pos |-> BigToNat(to)]

-----------------------------------------------------------------------------
(* decode.rs: the decoders.  Each returns st ("ok", "err" for an Err       *)
(* value, "panic" for an abort), the value and the cursor it leaves.       *)

DecErr(p) == [st |-> "err", val |-> NoValue, pos |-> p]
DecPanic(p) == [st |-> "panic", val |-> NoValue, pos |-> p]
DecFail(st, p) == IF st = "panic" THEN DecPanic(p) ELSE DecErr(p)

\* the part decode_string and decode_bytes share: val is the raw octets
decode_octets(d, p) ==
  LET pk == peek(d, p)
  IN  IF pk.st = "panic" THEN DecPanic(p)
      ELSE IF ~(pk.st = "some" /\ u8_is_digit(pk.b)) THEN DecErr(p)
      ELSE LET col == position(d, p, CH_colon)
           IN  IF col.st # "ok" THEN DecFail(col.st, p)
               ELSE LET hint == advance_many(d, p, NatToBig(col.v))
                    IN  IF hint.st # "some" THEN DecFail(hint.st, p)
                        ELSE LET n == char_slice_to_usize(hint.v)
                             IN  IF n.st # "some" THEN DecFail(n.st, hint.pos)
                                 ELSE LET body == advance_many(d, hint.pos + 1, n.v)
                                      IN  IF body.st # "some"
                                          THEN DecFail(body.st, hint.pos + 1)
                                          ELSE [st |-> "ok", val |-> body.v, pos |-> body.pos]

\* each octet becomes the char with that code point
decode_string(d, p) ==
  LET r == decode_octets(d, p)
  IN  IF r.st = "ok" THEN [r EXCEPT !.val = [k \in 1..Len(r.val) |-> r.val[k]]] ELSE r

decode_bytes(d, p) == decode_octets(d, p)

decode_integer(d, p) ==
  LET pk == peek(d, p)
  IN  IF pk.st = "panic" THEN DecPanic(p)
      ELSE IF ~(pk.st = "some" /\ pk.b = CH_i) THEN DecErr(p)
      ELSE LET endp == position(d, p, CH_e)
           IN  IF endp.st # "ok" THEN DecPanic(p)
               ELSE LET body == advance_many(d, p + 1, NatToBig(endp.v - 1))
                    IN  IF body.st # "some" THEN DecFail(body.st, p + 1)
                        ELSE LET n == char_slice_to_isize(body.v)
                             IN  IF n.st # "some" THEN DecFail(n.st, body.pos)
                                 ELSE [st |-> "ok", val |-> n.v, pos |-> body.pos + 1]

RECURSIVE decode_bencoded_value(_, _)
RECURSIVE decode_list_loop(_, _, _)
RECURSIVE decode_dictionary_loop(_, _, _, _)

\* values.push(value), or the `?` on a failed element
ListPush(d, values, r) ==
  IF r.st # "ok" THEN r
  ELSE decode_list_loop(d, r.pos, Append(values, r.val))

\* one turn of the loop, pk the byte peeked
ListTurn(d, p, values, pk) ==
  IF pk.st = "panic" THEN DecPanic(p)
  ELSE IF pk.st = "none" \/ pk.b = CH_e
       THEN [st |-> "ok", val |-> Arr(values), pos |-> p + 1]
       ELSE ListPush(d, values, decode_bencoded_value(d, p))

decode_list_loop(d, p, values) == ListTurn(d, p, values, peek(d, p))

ListHead(d, p, pk) ==
  IF pk.st = "panic" THEN DecPanic(p)
  ELSE IF ~(pk.st = "some" /\ pk.b = CH_l) THEN DecErr(p)
  ELSE decode_list_loop(d, p + 1, <<>>)

decode_list(d, p) == ListHead(d, p, peek(d, p))

\* ParseState::None: r is the decoded key
DictKey(d, values, r) ==
  IF r.st # "ok" THEN r
  ELSE IF r.val.t = "str"
       THEN decode_dictionary_loop(d, r.pos, <<r.val.s>>, values)
       ELSE DecErr(r.pos)

\* ParseState::Key(k), k == "pieces": r is the result of decode_bytes
DictPieces(d, k, values, r) ==
  IF r.st # "ok" THEN r
  ELSE decode_dictionary_loop(d, r.pos, <<>>,
         MapInsert(values, k, Str(encode_bytes_to_string(r.val))))

\* ParseState::Key(k), any other k: r is the decoded value
DictValue(d, k, values, r) ==
  IF r.st # "ok" THEN r
  ELSE decode_dictionary_loop(d, r.pos, <<>>, MapInsert(values, k, r.val))

\* one turn of the loop, pk the byte peeked; state is ParseState: <<>> for
\* None, <<k>> for Key(k)
DictTurn(d, p, state, values, pk) ==
  IF pk.st = "panic" THEN DecPanic(p)
  ELSE IF pk.st = "none" \/ pk.b = CH_e
       THEN [st |-> "ok", val |-> Obj(values), pos |-> p]
  ELSE IF state = <<>> THEN DictKey(d, values, decode_bencoded_value(d, p))
  ELSE IF state[1] = STR_pieces
       THEN DictPieces(d, state[1], values, decode_bytes(d, p))
       ELSE DictValue(d, state[1], values, decode_bencoded_value(d, p))

decode_dictionary_loop(d, p, state, values) ==
  DictTurn(d, p, state, values, peek(d, p))

DictHead(d, p, pk) ==
  IF pk.st = "panic" THEN DecPanic(p)
  ELSE IF ~(pk.st = "some" /\ pk.b = CH_d) THEN DecErr(p)
  ELSE decode_dictionary_loop(d, p + 1, <<>>, <<>>)

decode_dictionary(d, p) == DictHead(d, p, peek(d, p))

\* Ok(serde_json::Value::String(s)) / Ok(serde_json::Value::Number(n))
Wrapped(r, tag) ==
  IF r.st # "ok" THEN r
  ELSE [r EXCEPT !.val = IF tag = "str" THEN Str(r.val) ELSE Num(r.val)]

Dispatch(d, p, flag) ==
  IF flag.st = "panic" THEN DecPanic(p)
  ELSE IF flag.st = "none" THEN DecErr(p)
  ELSE IF u8_is_digit(flag.b) THEN Wrapped(decode_string(d, p), "str")
  ELSE IF flag.b = CH_i THEN Wrapped(decode_integer(d, p), "num")
  ELSE IF flag.b = CH_l THEN decode_list(d, p)
  ELSE IF flag.b = CH_d THEN decode_dictionary(d, p)
  ELSE DecPanic(p)

decode_bencoded_value(d, p) == Dispatch(d, p, peek(d, p))

-----------------------------------------------------------------------------
(* encode.rs.  An encoder returns the bytes it appended to the             *)
(* EncodeContext and st = "panic" when it aborted on the way.              *)

\* v.to_string(), one byte per decimal digit
push_usize(v) == [k \in 1..Len(v) |-> CH_0 + v[k]]

encode_string(s) ==
  push_usize(NatToBig(Len(Utf8(s)))) \o <<CH_colon>> \o Utf8(s)

encode_integer(i) ==
  <<CH_i>>
    \o (IF i.neg THEN <<CH_minus>> \o push_usize(AsUsize(i))
                 ELSE push_usize(i.mag))
    \o <<CH_e>>

RECURSIVE encode_json_value(_)
RECURSIVE encode_list_loop(_, _, _)
RECURSIVE encode_dictionary_loop(_, _, _)

encode_list_loop(v, k, out) ==
  IF k > Len(v) THEN [st |-> "ok", out |-> out \o <<CH_e>>]
  ELSE LET r == encode_json_value(v[k])
       IN  IF r.st # "ok" THEN [st |-> r.st, out |-> out \o r.out]
           ELSE encode_list_loop(v, k + 1, out \o r.out)

encode_list(v) == encode_list_loop(v, 1, <<CH_l>>)

encode_dictionary_loop(m, j, out) ==
  IF j > Len(m) THEN [st |-> "ok", out |-> out \o <<CH_e>>]
  ELSE LET k    == m[j][1]
           v    == m[j][2]
           key  == encode_string(k)
       IN  IF k \in {STR_pieces, STR_peers}
           THEN IF v.t # "str" THEN [st |-> "panic", out |-> out \o key]
                ELSE LET bs == decode_bytes_from_string(v.s)
                     IN  IF bs.st # "ok" THEN [st |-> "panic", out |-> out \o key]
                         ELSE encode_dictionary_loop(m, j + 1,
                                out \o key \o push_usize(NatToBig(Len(bs.v)))
                                    \o <<CH_colon>> \o bs.v)
           ELSE LET r == encode_json_value(v)
                IN  IF r.st # "ok" THEN [st |-> r.st, out |-> out \o key \o r.out]
                    ELSE encode_dictionary_loop(m, j + 1, out \o key \o r.out)

encode_dictionary(m) == encode_dictionary_loop(m, 1, <<CH_d>>)

encode_json_value(v) ==
  IF v.t = "num" THEN [st |-> "ok", out |-> encode_integer(v.n)]
  ELSE IF v.t = "str" THEN [st |-> "ok", out |-> encode_string(v.s)]
  ELSE IF v.t = "arr" THEN encode_list(v.a)
  ELSE IF v.t = "obj" THEN encode_dictionary(v.m)
  ELSE [st |-> "panic", out |-> <<>>]

-----------------------------------------------------------------------------
(* torrent.rs: Torrent::try_from.  SHA-1 is kept as the digest of its      *)
(* input, distinct inputs giving distinct digests.                         *)

Sha1(bytes) == [sha1_of |-> bytes]

IsUsizeNum(v) == v.t = "num" /\ ~v.n.neg

\* serde_json::from_value::<Torrent>: the fields the derive requires
DeserializesAsTorrent(v) ==
  /\ v.t = "obj"
  /\ MapHas(v.m, <<97, 110, 110, 111, 117, 110, 99, 101>>)
  /\ MapGet(v.m, <<97, 110, 110, 111, 117, 110, 99, 101>>).t = "str"
  /\ MapHas(v.m, STR_info)
  /\ LET info == MapGet(v.m, STR_info)
     IN  /\ info.t = "obj"
         /\ MapHas(info.m, <<108, 101, 110, 103, 116, 104>>)
         /\ IsUsizeNum(MapGet(info.m, <<108, 101, 110, 103, 116, 104>>))
         /\ MapHas(info.m, <<110, 97, 109, 101>>)
         /\ MapGet(info.m, <<110, 97, 109, 101>>).t = "str"
         /\ MapHas(info.m, <<112, 105, 101, 99, 101, 32, 108, 101, 110, 103, 116, 104>>)
         /\ IsUsizeNum(MapGet(info.m, <<112, 105, 101, 99, 101, 32, 108, 101, 110, 103, 116, 104>>))
         /\ MapHas(info.m, STR_pieces)
         /\ MapGet(info.m, STR_pieces).t = "str"

STR_length == <<108, 101, 110, 103, 116, 104>>
STR_piece_length == <<112, 105, 101, 99, 101, 32, 108, 101, 110, 103, 116, 104>>

\* slice::chunks_exact: the chunks of n elements, the remainder left out
RECURSIVE chunks_exact(_, _)
chunks_exact(b, n) ==
  IF Len(b) < n THEN <<>>
  ELSE <<SubSeq(b, 1, n)>> \o chunks_exact(SubSeq(b, n + 1, Len(b)), n)

\* the Torrent: how try_from ended, the bytes hashed and the info-hash, and
\* length, piece_length, pieces and piece_hashes of its TorrentInfo
NoTorrent ==
  [st |-> "none", hashed |-> <<>>, info_hash |-> Sha1(<<>>),
   length |-> <<0>>, piece_length |-> <<0>>, pieces |-> <<>>, piece_hashes |-> <<>>]

\* the Torrent built from a value that deserializes, info its info map
TorrentOf(info, out) ==
  [st |-> "ok", hashed |-> out, info_hash |-> Sha1(out),
   length |-> MapGet(info, STR_length).n.mag,
   piece_length |-> MapGet(info, STR_piece_length).n.mag,
   pieces |-> MapGet(info, STR_pieces).s,
   piece_hashes |-> chunks_exact(Utf8(MapGet(info, STR_pieces).s), 40)]

try_from(value) ==
  IF ~(value.t = "obj" /\ MapHas(value.m, STR_info)
       /\ MapGet(value.m, STR_info).t = "obj")
  THEN [NoTorrent EXCEPT !.st = "err"]
  ELSE LET enc == encode_dictionary(MapGet(value.m, STR_info).m)
       IN  IF enc.st # "ok" THEN [NoTorrent EXCEPT !.st = "panic"]
           ELSE IF ~DeserializesAsTorrent(value)
                THEN [NoTorrent EXCEPT !.st = "err"]
                ELSE TorrentOf(MapGet(value.m, STR_info).m, enc.out)

-----------------------------------------------------------------------------
(* magnet.rs: Magnet::new and Magnet::print_info.  A &str is the sequence  *)
(* of its code points; str::len and str::split_at count UTF-8 bytes.       *)

\* "magnet:?xt=urn:btih:"
STR_magnet_prefix == <<109, 97, 103, 110, 101, 116, 58, 63, 120, 116, 61, 117, 114, 110, 58, 98, 116, 105, 104, 58>>
STR_dn == <<100, 110>>
STR_tr == <<116, 114>>

None == [some |-> FALSE, v |-> <<>>]
Some(x) == [some |-> TRUE, v |-> x]

\* str::starts_with
starts_with(s, p) == Len(s) >= Len(p) /\ SubSeq(s, 1, Len(p)) = p

\* str::is_char_boundary: byte offset mid falls between two characters
is_char_boundary(s, mid) == \E k \in 0..Len(s) : Len(Utf8(SubSeq(s, 1, k))) = mid

\* str::split_at(mid); panics when mid is inside a character
split_at(s, mid) ==
  IF ~is_char_boundary(s, mid) THEN [st |-> "panic", head |-> <<>>, rest |-> <<>>]
  ELSE LET k == CHOOSE j \in 0..Len(s) : Len(Utf8(SubSeq(s, 1, j))) = mid
       IN  [st |-> "ok", head |-> SubSeq(s, 1, k), rest |-> SubSeq(s, k + 1, Len(s))]

\* hex::decode
hex_decode(s) ==
  LET b == Utf8(s)
  IN  IF Len(b) % 2 = 0 /\ \A k \in 1..Len(b) : HexVal(b[k]) >= 0
      THEN [st |-> "ok", v |-> HexPairs(b)]
      ELSE [st |-> "err", v |-> <<>>]

\* String::from_utf8_lossy, for sequences of one and two byte characters
RECURSIVE from_utf8_lossy(_)
from_utf8_lossy(b) ==
  IF Len(b) = 0 THEN <<>>
  ELSE IF b[1] < 128 THEN <<b[1]>> \o from_utf8_lossy(Tail(b))
  ELSE IF b[1] >= 194 /\ b[1] <= 223 /\ Len(b) >= 2 /\ b[2] >= 128 /\ b[2] <= 191
       THEN <<(b[1] - 192) * 64 + (b[2] - 128)>> \o from_utf8_lossy(SubSeq(b, 3, Len(b)))
  ELSE <<65533>> \o from_utf8_lossy(Tail(b))

\* form_urlencoded decode: '+' is a space, %XX is the byte XX
RECURSIVE percent_decode(_)
percent_decode(b) ==
  IF Len(b) = 0 THEN <<>>
  ELSE IF b[1] = 43 THEN <<32>> \o percent_decode(Tail(b))
  ELSE IF b[1] = 37 /\ Len(b) >= 3 /\ HexVal(b[2]) >= 0 /\ HexVal(b[3]) >= 0
       THEN <<16 * HexVal(b[2]) + HexVal(b[3])>> \o percent_decode(SubSeq(b, 4, Len(b)))
  ELSE <<b[1]>> \o percent_decode(Tail(b))

\* the bytes of b cut at every occurrence of sep
RECURSIVE SplitOn(_, _, _)
SplitOn(b, sep, cur) ==
  IF Len(b) = 0 THEN <<cur>>
  ELSE IF b[1] = sep THEN <<cur>> \o SplitOn(Tail(b), sep, <<>>)
  ELSE SplitOn(Tail(b), sep, Append(cur, b[1]))

\* one name=value segment, cut at its first '='
ParsePair(seg) ==
  IF \E k \in 1..Len(seg) : seg[k] = 61
  THEN LET k == CHOOSE j \in 1..Len(seg) : seg[j] = 61 /\ \A i \in 1..(j - 1) : seg[i] # 61
       IN  <<from_utf8_lossy(percent_decode(SubSeq(seg, 1, k - 1))),
             from_utf8_lossy(percent_decode(SubSeq(seg, k + 1, Len(seg))))>>
  ELSE <<from_utf8_lossy(percent_decode(seg)), <<>>>>

\* serde_urlencoded::from_str::<Vec<(String, String)>>: empty segments are
\* skipped
urlencoded_from_str(s) ==
  LET segs == SplitOn(Utf8(s), 38, <<>>)
      kept == SelectSeq(segs, LAMBDA g : Len(g) > 0)
  IN  [j \in 1..Len(kept) |-> ParsePair(kept[j])]

NoMagnet ==
  [st |-> "none", info_hash |-> <<>>, download_name |-> None, tracker_url |-> None]

\* the loop without its `_ => continue` arm: any other key is taken as dn
RECURSIVE MagnetSegments_AnyKey(_, _, _)
MagnetSegments_AnyKey(segments, k, m) ==
  IF k > Len(segments) THEN m
  ELSE IF segments[k][1] = STR_tr
       THEN MagnetSegments_AnyKey(segments, k + 1, [m EXCEPT !.tracker_url = Some(segments[k][2])])
  ELSE MagnetSegments_AnyKey(segments, k + 1, [m EXCEPT !.download_name = Some(segments[k][2])])

\* the loop over the segments: dn and tr are kept, the last one wins
RECURSIVE MagnetSegments(_, _, _)
MagnetSegments(segments, k, m) ==
  IF k > Len(segments) THEN m
  ELSE IF segments[k][1] = STR_dn
       THEN MagnetSegments(segments, k + 1, [m EXCEPT !.download_name = Some(segments[k][2])])
  ELSE IF segments[k][1] = STR_tr
       THEN MagnetSegments(segments, k + 1, [m EXCEPT !.tracker_url = Some(segments[k][2])])
  ELSE MagnetSegments(segments, k + 1, m)

\* Magnet::new
Magnet_new(magnet_str) ==
  IF ~starts_with(magnet_str, STR_magnet_prefix) \/ Len(Utf8(magnet_str)) < 20 + 40
  THEN [NoMagnet EXCEPT !.st = "err"]
  ELSE LET tail == split_at(magnet_str, 20).rest
           cut  == split_at(tail, 40)
           hash == hex_decode(cut.head)
       IN  IF cut.st = "panic" THEN [NoMagnet EXCEPT !.st = "panic"]
           ELSE IF hash.st # "ok" THEN [NoMagnet EXCEPT !.st = "err"]
           ELSE IF Len(cut.rest) = 0
                THEN [NoMagnet EXCEPT !.st = "ok", !.info_hash = hash.v]
           ELSE MagnetSegments(urlencoded_from_str(cut.rest), 1,
                               [NoMagnet EXCEPT !.st = "ok", !.info_hash = hash.v])

NoPrinted == [tracker |-> None, hash |-> <<>>]

\* Magnet::print_info: the tracker URL line when there is one, and the
\* info-hash in hex
print_info(m) == [tracker |-> m.tracker_url, hash |-> encode_bytes_to_string(m.info_hash)]

-----------------------------------------------------------------------------
(* Wire framing of the http module (spec 4.4): the fixed 68 byte handshake *)
(* and the length-prefixed peer messages.  HandshakeMessage, PieceMessage  *)
(* and the constants below are used by http/torrent.rs and http/magnet.rs. *)

\* "BitTorrent protocol"
STR_protocol == <<66, 105, 116, 84, 111, 114, 114, 101, 110, 116, 32, 112, 114, 111, 116, 111, 99, 111, 108>>

\* the client's fixed 20 byte peer id
PEER_ID == <<48, 48, 49, 49, 50, 50, 51, 51, 52, 52, 53, 53, 54, 54, 55, 55, 56, 56, 57, 57>>

\* the id the client advertises for ut_metadata
EXT_METADATA_ID == 1

STR_m == <<109>>
STR_ut_metadata == <<117, 116, 95, 109, 101, 116, 97, 100, 97, 116, 97>>
STR_metadata_size == <<109, 101, 116, 97, 100, 97, 116, 97, 95, 115, 105, 122, 101>>
STR_msg_type == <<109, 115, 103, 95, 116, 121, 112, 101>>
STR_piece == <<112, 105, 101, 99, 101>>
STR_total_size == <<116, 111, 116, 97, 108, 95, 115, 105, 122, 101>>

\* message ids (spec 4.4)
MSG_CHOKE == 0
MSG_UNCHOKE == 1
MSG_INTERESTED == 2
MSG_HAVE == 4
MSG_BITFIELD == 5
MESSAGE_ID == 20

\* u32::to_be_bytes, u32::from_be_bytes
to_be_bytes(n) ==
  <<(n \div 16777216) % 256, (n \div 65536) % 256, (n \div 256) % 256, n % 256>>
from_be_bytes(b) == ((b[1] * 256 + b[2]) * 256 + b[3]) * 256 + b[4]

\* HandshakeMessage::new, HandshakeMessage::with_ext
HandshakeMessage_with_ext(info_hash, peer_id, reserved) ==
  [reserved |-> reserved, info_hash |-> info_hash, peer_id |-> peer_id]
HandshakeMessage_new(info_hash, peer_id) ==
  HandshakeMessage_with_ext(info_hash, peer_id, <<0, 0, 0, 0, 0, 0, 0, 0>>)

HandshakeMessage_length == 68

HandshakeMessage_to_bytes(m) ==
  <<19>> \o STR_protocol \o m.reserved \o m.info_hash \o m.peer_id

\* HandshakeMessage::from_bytes: the layout is checked, nothing else
HandshakeMessage_from_bytes(b) ==
  IF Len(b) = HandshakeMessage_length /\ b[1] = 19 /\ SubSeq(b, 2, 20) = STR_protocol
  THEN [st |-> "ok",
        msg |-> HandshakeMessage_with_ext(SubSeq(b, 29, 48), SubSeq(b, 49, 68),
                                          SubSeq(b, 21, 28))]
  ELSE [st |-> "err", msg |-> HandshakeMessage_new(<<>>, <<>>)]

\* HandshakeMessage::has_ext: bit 20 of the reserved bytes (byte index 5,
\* value 0x10)
has_ext(m) == (m.reserved[6] \div 16) % 2 = 1

\* what connect_peer holds: the peer's handshake, the peer's ut_metadata id
\* and the torrent info of the MagnetHandshakeResult
NoSession ==
  [handshake_resp |-> HandshakeMessage_new(<<>>, <<>>),
   ut_metadata_id |-> 0,
   torrent_info |-> None]

\* PieceMessage: the message id and the bytes that follow it
PieceMessage(id, body) == [id |-> id, body |-> body]
KeepAlive == [id |-> -1, body |-> <<>>]

PieceMessage_to_bytes(m) == to_be_bytes(1 + Len(m.body)) \o <<m.id>> \o m.body

PieceMessage_new_interested == PieceMessage(MSG_INTERESTED, <<>>)

\* the length the table of spec 4.4 gives a message with a fixed body;
\* 0 for the ids whose body varies (bitfield, piece, extension)
FixedLength(id) ==
  IF id \in {0, 1, 2, 3} THEN 1
  ELSE IF id = 4 THEN 5
  ELSE IF id \in {6, 8} THEN 13
  ELSE 0

\* PieceMessage::from_bytes: the length prefix, the id, and as body what
\* the buffer holds of the announced length (http/magnet.rs hands it the 5
\* byte head of a bitfield whose body it has read separately)
PieceMessage_from_bytes(b) ==
  IF Len(b) < 4 THEN [st |-> "err", msg |-> KeepAlive]
  ELSE IF from_be_bytes(b) = 0 THEN [st |-> "ok", msg |-> KeepAlive]
  ELSE IF Len(b) < 5 THEN [st |-> "err", msg |-> KeepAlive]
  ELSE IF /\ b[5] \in (0..8) \cup {MESSAGE_ID}
          /\ FixedLength(b[5]) \in {0, from_be_bytes(b)}
       THEN [st |-> "ok",
             msg |-> PieceMessage(b[5],
                       SubSeq(b, 6, IF Len(b) < 4 + from_be_bytes(b)
                                    THEN Len(b) ELSE 4 + from_be_bytes(b)))]
  ELSE [st |-> "err", msg |-> KeepAlive]

\* PieceMessage::new_extension(&EXT_ID_MAP): the extension handshake,
\* extended message id 0 and the dictionary {"m": {"ut_metadata": id}}
PieceMessage_new_extension ==
  PieceMessage(MESSAGE_ID,
    <<0>> \o encode_dictionary(
               <<<<STR_m, Obj(<<<<STR_ut_metadata,
                                  Num(ISize(FALSE, NatToBig(EXT_METADATA_ID)))>>>>)>>>>).out)

-----------------------------------------------------------------------------
(* http/magnet.rs: the metadata module and the extension handshake reply.  *)

\* a decimal magnitude modulo m
RECURSIVE BigMod(_, _)
BigMod(mag, m) ==
  IF Len(mag) = 0 THEN 0
  ELSE (10 * BigMod(SubSeq(mag, 1, Len(mag) - 1), m) + mag[Len(mag)]) % m

\* `as u8` of an i64
AsU8(i) == IF i.neg THEN (256 - BigMod(i.mag, 256)) % 256 ELSE BigMod(i.mag, 256)

\* MessageType::id
MSG_TYPE_REQUEST == 0
MSG_TYPE_DATA == 1
MSG_TYPE_REJECT == 2

\* metadata::Message::to_bytes; the dictionary always names piece 0
Message_to_bytes(ext_id, msg_type) ==
  LET dict_bytes == encode_dictionary(
                      MapInsert(MapInsert(<<>>, STR_msg_type,
                                          Num(ISize(FALSE, NatToBig(msg_type)))),
                                STR_piece, Num(ISize(FALSE, <<0>>)))).out
  IN  to_be_bytes(1 + 1 + Len(dict_bytes)) \o <<MESSAGE_ID>> \o <<ext_id>> \o dict_bytes

\* serde_json::from_value::<TorrentInfo>: the fields the derive requires
DeserializesAsTorrentInfo(info) ==
  /\ info.t = "obj"
  /\ MapHas(info.m, <<108, 101, 110, 103, 116, 104>>)
  /\ IsUsizeNum(MapGet(info.m, <<108, 101, 110, 103, 116, 104>>))
  /\ MapHas(info.m, <<110, 97, 109, 101>>)
  /\ MapGet(info.m, <<110, 97, 109, 101>>).t = "str"
  /\ MapHas(info.m, <<112, 105, 101, 99, 101, 32, 108, 101, 110, 103, 116, 104>>)
  /\ IsUsizeNum(MapGet(info.m, <<112, 105, 101, 99, 101, 32, 108, 101, 110, 103, 116, 104>>))
  /\ MapHas(info.m, STR_pieces)
  /\ MapGet(info.m, STR_pieces).t = "str"

ParseFail(st) == [st |-> st, info |-> NoValue]

\* parse_torrent_data from `let content_list` on: r is the decoded list
TorrentDataContent(r) ==
  IF r.st # "ok" THEN ParseFail(r.st)
  ELSE IF r.val.t # "arr" THEN ParseFail("err")
  ELSE IF Len(r.val.a) < 1 THEN ParseFail("panic")
  ELSE IF r.val.a[1].t # "obj" THEN ParseFail("err")
  ELSE IF ~MapHas(r.val.a[1].m, STR_msg_type) THEN ParseFail("err")
  ELSE IF MapGet(r.val.a[1].m, STR_msg_type).t # "num" THEN ParseFail("err")
  ELSE IF MapGet(r.val.a[1].m, STR_msg_type).n.neg THEN ParseFail("panic")
  ELSE IF AsU8(MapGet(r.val.a[1].m, STR_msg_type).n) > MSG_TYPE_REJECT THEN ParseFail("err")
  ELSE IF AsU8(MapGet(r.val.a[1].m, STR_msg_type).n) # MSG_TYPE_DATA THEN ParseFail("err")
  ELSE IF Len(r.val.a) < 2 THEN ParseFail("panic")
  ELSE IF ~DeserializesAsTorrentInfo(r.val.a[2]) THEN ParseFail("err")
  ELSE [st |-> "ok", info |-> r.val.a[2]]

\* metadata::Message::parse_torrent_data
parse_torrent_data(length, d) ==
  IF length < 3 THEN ParseFail("err")
  ELSE IF Len(d) # length THEN ParseFail("err")
  ELSE IF d[1] # MESSAGE_ID THEN ParseFail("err")
  ELSE IF d[2] # EXT_METADATA_ID THEN ParseFail("err")
  ELSE TorrentDataContent(
         decode_bencoded_value(<<CH_l>> \o SubSeq(d, 3, length) \o <<CH_e>>, 0))

ExtFail(st) == [st |-> st, ut_metadata_id |-> 0]

\* connect_peer, the Extension arm up to ut_metadata_id: v is the decoded
\* reply
ExtensionIds(v) ==
  IF v.st # "ok" THEN ExtFail(v.st)
  ELSE IF v.val.t # "obj" THEN ExtFail("panic")
  ELSE IF ~MapHas(v.val.m, STR_m) THEN ExtFail("panic")
  ELSE IF MapGet(v.val.m, STR_m).t # "obj" THEN ExtFail("panic")
  ELSE IF ~MapHas(MapGet(v.val.m, STR_m).m, STR_ut_metadata) THEN ExtFail("err")
  ELSE IF MapGet(MapGet(v.val.m, STR_m).m, STR_ut_metadata).t # "num" THEN ExtFail("err")
  ELSE [st |-> "ok",
        ut_metadata_id |-> AsU8(MapGet(MapGet(v.val.m, STR_m).m, STR_ut_metadata).n)]

\* connect_peer, the match on the extension handshake reply
ExtensionReply(parsed) ==
  IF parsed.st # "ok" THEN ExtFail("err")
  ELSE IF parsed.msg.id # MESSAGE_ID THEN ExtFail("err")
  ELSE IF Len(parsed.msg.body) < 1 THEN ExtFail("panic")
  ELSE ExtensionIds(decode_bencoded_value(Tail(parsed.msg.body), 0))

-----------------------------------------------------------------------------
(* Inputs.  A bencode value of the grammar (spec 4.1): integer, byte       *)
(* string of raw octets, list, dictionary with byte-string keys; and its   *)
(* canonical encoding.                                                     *)

BInt(i) == [k |-> "int", i |-> i]
BStr(b) == [k |-> "bytes", b |-> b]
BList(l) == [k |-> "list", l |-> l]
BDict(d) == [k |-> "dict", d |-> d]

Decimal(i) ==
  (IF i.neg THEN <<CH_minus>> ELSE <<>>) \o [j \in 1..Len(i.mag) |-> CH_0 + i.mag[j]]

LenPrefixed(b) == Decimal(ISize(FALSE, NatToBig(Len(b)))) \o <<CH_colon>> \o b

RECURSIVE Canonical(_)
RECURSIVE CanonicalSeq(_)
RECURSIVE CanonicalPairs(_)

CanonicalSeq(l) ==
  IF Len(l) = 0 THEN <<>> ELSE Canonical(l[1]) \o CanonicalSeq(Tail(l))

CanonicalPairs(d) ==
  IF Len(d) = 0 THEN <<>>
  ELSE LenPrefixed(d[1][1]) \o Canonical(d[1][2]) \o CanonicalPairs(Tail(d))

Canonical(t) ==
  IF t.k = "int" THEN <<CH_i>> \o Decimal(t.i) \o <<CH_e>>
  ELSE IF t.k = "bytes" THEN LenPrefixed(t.b)
  ELSE IF t.k = "list" THEN <<CH_l>> \o CanonicalSeq(t.l) \o <<CH_e>>
  ELSE <<CH_d>> \o CanonicalPairs(t.d) \o <<CH_e>>

\* Bounds of the input space.
MaxWeight == 3
MaxBody == 3
MaxStr == 2
MaxPairs == 2

SeqsUpTo(S, n) == UNION {[1..m -> S] : m \in 0..n}

I64(neg, n) == ISize(neg, NatToBig(n))

AtomInts == {I64(FALSE, 7), I64(TRUE, 5)}
AtomStrs == {<<>>, <<97>>, <<200>>}
Atoms == {BInt(i) : i \in AtomInts} \cup {BStr(b) : b \in AtomStrs}

\* dictionary keys of the generated values, in ascending order: "a", "b"
KeySeq == <<(<<97>>), (<<98>>)>>

KeyChoices(n) ==
  {f \in [1..n -> 1..Len(KeySeq)] : \A x, y \in 1..n : x < y => f[x] < f[y]}

RECURSIVE TreesW(_)
RECURSIVE TreeSeqsW(_)

\* sequences of values of total weight w
TreeSeqsW(w) ==
  IF w = 0 THEN {<<>>}
  ELSE UNION {{<<t>> \o r : t \in TreesW(j), r \in TreeSeqsW(w - j)} : j \in 1..w}

\* values of weight w: an atom or an empty container weighs 1, a container
\* one more than its elements
TreesW(w) ==
  IF w = 1 THEN Atoms \cup {BList(<<>>), BDict(<<>>)}
  ELSE {BList(l) : l \in TreeSeqsW(w - 1)}
       \cup UNION {{BDict([j \in 1..Len(l) |-> <<KeySeq[f[j]], l[j]>>]) :
                      f \in KeyChoices(Len(l))} :
                   l \in {x \in TreeSeqsW(w - 1) : Len(x) <= Len(KeySeq)}}

Trees == UNION {TreesW(w) : w \in 1..MaxWeight}

\* integers of the signed 64-bit range, the two ends included
ISIZE_MIN_MAG == <<9,2,2,3,3,7,2,0,3,6,8,5,4,7,7,5,8,0,8>>

IntSamples ==
  {I64(FALSE, 0), I64(FALSE, 7), I64(TRUE, 7), I64(FALSE, 52), I64(TRUE, 52),
   ISize(FALSE, <<4,2,9,4,9,6,7,3,0,0>>), ISize(TRUE, <<4,2,9,4,9,6,7,3,0,0>>),
   ISize(FALSE, ISIZE_MAX), ISize(TRUE, ISIZE_MAX), ISize(TRUE, ISIZE_MIN_MAG)}
    \cup {I64(neg, n) : neg \in BOOLEAN, n \in 1..30}

\* bodies of integer tokens: '-', '0', '7', 'x'
IntAlphabet == {CH_minus, CH_0, 55, 120}
IntBodies == SeqsUpTo(IntAlphabet, MaxBody)

\* octets of byte strings: NUL, 'a', and two octets that are not ASCII
ByteAlphabet == {0, 97, 128, 255}
ByteStrings == SeqsUpTo(ByteAlphabet, MaxStr)

\* bytes that start no bencode value: 'e', 'x', NUL, 0xff, ':', '-'
BadTypeBytes == {CH_e, 120, 0, 255, CH_colon, CH_minus}
BadTypeInputs ==
  {<<x>> : x \in BadTypeBytes}
    \cup {<<CH_l, x, CH_e>> : x \in BadTypeBytes \ {CH_e}}
    \cup {<<CH_l, CH_i, 55, CH_e, x, CH_e>> : x \in BadTypeBytes \ {CH_e}}
    \cup {<<CH_d, x, CH_e>> : x \in BadTypeBytes \ {CH_e}}
    \cup {<<CH_d, 49, CH_colon, 97, x, CH_e>> : x \in BadTypeBytes \ {CH_e}}

\* dictionaries whose keys ("a", "b", the octet 0xc8) come in any order and
\* may repeat
PairSeqs == UNION {[1..m -> {<<97>>, <<98>>, <<200>>} \X Atoms] : m \in 1..MaxPairs}

\* single-file info dictionaries: length, name, piece length, pieces
InfoTree(name, pieces) ==
  BDict(<< <<(<<108, 101, 110, 103, 116, 104>>), BInt(I64(FALSE, 7))>>,
           <<(<<110, 97, 109, 101>>), BStr(name)>>,
           <<(<<112, 105, 101, 99, 101, 32, 108, 101, 110, 103, 116, 104>>), BInt(I64(FALSE, 7))>>,
           <<STR_pieces, BStr(pieces)>> >>)

TorrentTree(info) ==
  BDict(<< <<(<<97, 110, 110, 111, 117, 110, 99, 101>>), BStr(<<117>>)>>,
           <<STR_info, info>> >>)

InfoTrees == {InfoTree(n, ps) : n \in ByteStrings, ps \in {<<0>>, <<255, 97>>}}

\* the bound on the piece hashes of a torrent
MaxPieces == 2

\* info dictionaries whose length, piece length and number of hash bytes
\* agree or disagree: n bytes of `pieces`
MetaInfoTree(length, piece_length, n) ==
  BDict(<< <<STR_length, BInt(I64(FALSE, length))>>,
           <<(<<110, 97, 109, 101>>), BStr(<<97>>)>>,
           <<STR_piece_length, BInt(I64(FALSE, piece_length))>>,
           <<STR_pieces, BStr([k \in 1..n |-> 7])>> >>)

MetaLengths == {0, 7, 8, 14, 15}
MetaPieceLengths == {0, 7}
\* whole hashes, and whole hashes with one byte more
MetaPiecesLens == {20 * k + r : k \in 0..MaxPieces, r \in {0, 1}}

\* dictionaries with a `pieces` entry, alone or next to one other entry
\* ("a" sorts before "pieces", "z" after it)
PiecesNeighbours == Atoms \cup {BList(<<>>), BDict(<<>>)}
PiecesTrees ==
  {BDict(<< <<STR_pieces, BStr(ps)>> >>) : ps \in ByteStrings}
    \cup {BDict(<< <<(<<97>>), t>>, <<STR_pieces, BStr(ps)>> >>) :
            t \in PiecesNeighbours, ps \in ByteStrings}
    \cup {BDict(<< <<STR_pieces, BStr(ps)>>, <<(<<122>>), t>> >>) :
            t \in PiecesNeighbours, ps \in ByteStrings}

Sources ==
  {[kind |-> "canon", tree |-> t] : t \in Trees}
    \cup UNION {{[kind |-> "trunc", tree |-> t, cut |-> c] :
                   c \in 0..(Len(Canonical(t)) - 1)} : t \in Trees}
    \cup {[kind |-> "int", n |-> n] : n \in IntSamples}
    \cup {[kind |-> "token", body |-> b] : b \in IntBodies}
    \cup {[kind |-> "bytes", s |-> b] : b \in ByteStrings}
    \cup {[kind |-> "badtype", raw |-> b] : b \in BadTypeInputs}
    \cup {[kind |-> "pairs", pairs |-> ps] : ps \in PairSeqs}
    \cup {[kind |-> "torrent", info |-> t] : t \in InfoTrees}
    \cup {[kind |-> "metainfo", length |-> l, piece_length |-> pl, pieces_len |-> n] :
            l \in MetaLengths, pl \in MetaPieceLengths, n \in MetaPiecesLens}
    \cup {[kind |-> "pieces", tree |-> t] : t \in PiecesTrees}

InputOf(s) ==
  IF s.kind = "canon" THEN Canonical(s.tree)
  ELSE IF s.kind = "trunc"
       THEN SubSeq(Canonical(s.tree), 1, s.cut)
  ELSE IF s.kind = "int" THEN <<CH_i>> \o Decimal(s.n) \o <<CH_e>>
  ELSE IF s.kind = "token" THEN <<CH_i>> \o s.body \o <<CH_e>>
  ELSE IF s.kind = "bytes" THEN LenPrefixed(s.s)
  ELSE IF s.kind = "badtype" THEN s.raw
  ELSE IF s.kind = "pairs"
       THEN <<CH_d>> \o CanonicalPairs([j \in 1..Len(s.pairs) |->
                          <<s.pairs[j][1], s.pairs[j][2]>>]) \o <<CH_e>>
  ELSE IF s.kind = "torrent" THEN Canonical(TorrentTree(s.info))
  ELSE IF s.kind = "metainfo"
       THEN Canonical(TorrentTree(MetaInfoTree(s.length, s.piece_length, s.pieces_len)))
  ELSE Canonical(s.tree)

-----------------------------------------------------------------------------
(* The program: read the input, decode it, then either re-encode the       *)
(* decoded value or build a Torrent from it.                               *)

NoDecoded == [st |-> "none", val |-> NoValue]
\* the loop of decode_list or decode_dictionary that is running: its
\* ParseState (<<>> for None, <<k>> for Key(k)), its values, the turns it
\* has taken, and what its elements decode to (see DecodedAt)
NoLoop == [kind |-> "none", state |-> <<>>, values |-> <<>>, turns |-> 0, at |-> <<>>]
NoEncoded == [st |-> "none", out |-> <<>>]

Init ==
  /\ build \in Builds
  /\ src \in Sources
  /\ data = InputOf(src)
  /\ pos = 0
  /\ pc = "ready"
  /\ decoded = NoDecoded
  /\ encoded = NoEncoded
  /\ torrent = NoTorrent
  /\ loop = NoLoop
  /\ uri = <<>>
  /\ magnet = NoMagnet
  /\ printed = NoPrinted
  /\ wire = <<>>
  /\ trace = <<>>
  /\ sess = NoSession

\* DecodeContext::new(data); decode_bencoded_value(&mut ctx)
Decode ==
  /\ pc = "ready"
  /\ \E r \in {decode_bencoded_value(data, pos)} :
        /\ decoded' = [st |-> r.st, val |-> r.val]
        /\ pos' = r.pos
        /\ pc' = IF r.st = "panic" THEN "aborted" ELSE "decoded"
  /\ UNCHANGED <<build, src, data, encoded, torrent, loop>>
  /\ UNCHANGED <<magnetVars, peerVars>>

\* EncodeContext::new(); encode of the decoded value
Encode ==
  /\ pc = "decoded"
  /\ decoded.st = "ok"
  /\ \E r \in {encode_json_value(decoded.val)} :
        /\ encoded' = r
        /\ pc' = IF r.st = "panic" THEN "aborted" ELSE "encoded"
  /\ UNCHANGED <<build, src, data, pos, decoded, torrent, loop>>
  /\ UNCHANGED <<magnetVars, peerVars>>

\* Torrent::parse_from_file: the decoded value .try_into()
TryFrom ==
  /\ pc = "decoded"
  /\ decoded.st = "ok"
  /\ \E r \in {try_from(decoded.val)} :
        /\ torrent' = r
        /\ pc' = IF r.st = "panic" THEN "aborted" ELSE "parsed"
  /\ UNCHANGED <<build, src, data, pos, decoded, encoded, loop>>
  /\ UNCHANGED <<magnetVars, peerVars>>

Next == Decode \/ Encode \/ TryFrom

Spec == Init /\ [][Next]_vars

-----------------------------------------------------------------------------
(* decode.rs, turn by turn: the loop of decode_list or decode_dictionary   *)
(* that decodes the outermost value takes one step per iteration, so that  *)
(* the cursor is seen between iterations.  The inputs are every byte       *)
(* string over the bytes that steer the decoder, and a few values with     *)
(* loops of several iterations, whole and cut short at every length.       *)

\* the bound on the length of those byte strings
MaxSoup == 3

SoupAlphabet == {CH_l, CH_d, CH_e, CH_i, CH_colon, CH_minus, CH_0, 49}

\* [[], "a"], [7, -5, ""], [{}, 7], {"a": 7, "b": []}, {"a": {}, "b": 7}
\* and {"pieces": 00 ff, "z": 7}
LoopTrees ==
  {BList(<<BList(<<>>), BStr(<<97>>)>>),
   BList(<<BInt(I64(FALSE, 7)), BInt(I64(TRUE, 5)), BStr(<<>>)>>),
   BList(<<BDict(<<>>), BInt(I64(FALSE, 7))>>),
   BDict(<< <<(<<97>>), BInt(I64(FALSE, 7))>>, <<(<<98>>), BList(<<>>)>> >>),
   BDict(<< <<(<<97>>), BDict(<<>>)>>, <<(<<98>>), BInt(I64(FALSE, 7))>> >>),
   BDict(<< <<STR_pieces, BStr(<<0, 255>>)>>, <<(<<122>>), BInt(I64(FALSE, 7))>> >>)}

LoopSources ==
  {[kind |-> "canon", tree |-> t] : t \in LoopTrees}
    \cup UNION {{[kind |-> "trunc", tree |-> t, cut |-> c] :
                   c \in 0..(Len(Canonical(t)) - 1)} : t \in LoopTrees}
    \cup {[kind |-> "badtype", raw |-> b] : b \in SeqsUpTo(SoupAlphabet, MaxSoup)}

\* what the decoders yield at every position of the data: value is
\* decode_bencoded_value there, bytes is decode_bytes there with its octets
\* as the hex text that is inserted.  The loops below read their elements
\* from it.
DecodedAt(d) ==
  [k \in 1..(Len(d) + 1) |->
     [value |-> decode_bencoded_value(d, k - 1),
      bytes |-> CHOOSE w \in {Wrapped([b EXCEPT !.val = IF b.st = "ok"
                                                         THEN encode_bytes_to_string(b.val)
                                                         ELSE b.val], "str") :
                                b \in {decode_bytes(d, k - 1)}} : TRUE]]

LoopInit ==
  /\ build \in Builds
  /\ src \in LoopSources
  /\ data = InputOf(src)
  /\ pos = 0
  /\ pc = "unread"
  /\ decoded = NoDecoded
  /\ encoded = NoEncoded
  /\ torrent = NoTorrent
  /\ loop = NoLoop
  /\ uri = <<>>
  /\ magnet = NoMagnet
  /\ printed = NoPrinted
  /\ wire = <<>>
  /\ trace = <<>>
  /\ sess = NoSession

\* DecodeContext::new(data): the cursor at 0, the decoder about to be called
LoopNew ==
  /\ pc = "unread"
  /\ loop' = [NoLoop EXCEPT !.at = DecodedAt(data)]
  /\ pos' = 0
  /\ pc' = "ready"
  /\ UNCHANGED <<build, src, data, decoded, encoded, torrent, magnetVars, peerVars>>

\* where a decoder that ended leaves the program
LoopEnd(st) == IF st = "ok" THEN "decoded" ELSE IF st = "panic" THEN "aborted" ELSE "failed"

\* decode_bencoded_value up to the loop: a list or a dictionary passes its
\* head, any other value is decoded whole
LoopBegin ==
  /\ pc = "ready"
  /\ \E flag \in {peek(data, pos)} :
       IF flag.st = "some" /\ flag.b \in {CH_l, CH_d}
       THEN /\ loop' = [loop EXCEPT !.kind = IF flag.b = CH_l THEN "list" ELSE "dict"]
            /\ pos' = pos + 1
            /\ pc' = IF flag.b = CH_l THEN "in_list" ELSE "in_dict"
            /\ UNCHANGED decoded
       ELSE \E r \in {loop.at[pos + 1].value} :
              /\ decoded' = [st |-> r.st, val |-> r.val]
              /\ pos' = r.pos
              /\ pc' = LoopEnd(r.st)
              /\ UNCHANGED loop
  /\ UNCHANGED <<build, src, data, encoded, torrent, magnetVars, peerVars>>

\* an iteration that decodes its element from a copy of the context: the
\* element is pushed and the cursor stays where it was
LoopListTurn_Peeked ==
  /\ pc = "in_list"
  /\ \E pk \in {peek(data, pos)} :
       IF pk.st = "panic"
       THEN /\ pc' = "aborted"
            /\ UNCHANGED <<pos, decoded, loop>>
       ELSE IF pk.st = "none" \/ pk.b = CH_e
       THEN /\ decoded' = [st |-> "ok", val |-> Arr(loop.values)]
            /\ pos' = pos + 1
            /\ pc' = "decoded"
            /\ UNCHANGED loop
       ELSE \E r \in {loop.at[pos + 1].value} :
              IF r.st = "ok"
              THEN /\ loop' = [loop EXCEPT !.values = Append(@, r.val), !.turns = @ + 1]
                   /\ UNCHANGED <<pos, pc, decoded>>
              ELSE /\ decoded' = [st |-> r.st, val |-> r.val]
                   /\ pos' = r.pos
                   /\ pc' = LoopEnd(r.st)
                   /\ UNCHANGED loop
  /\ UNCHANGED <<build, src, data, encoded, torrent, magnetVars, peerVars>>

\* one iteration of the loop of decode_list: the end of the list (or of the
\* data) is passed and the list returned, or an element is decoded and
\* pushed
LoopListTurn ==
  /\ pc = "in_list"
  /\ \E pk \in {peek(data, pos)} :
       IF pk.st = "panic"
       THEN /\ pc' = "aborted"
            /\ UNCHANGED <<pos, decoded, loop>>
       ELSE IF pk.st = "none" \/ pk.b = CH_e
       THEN /\ decoded' = [st |-> "ok", val |-> Arr(loop.values)]
            /\ pos' = pos + 1
            /\ pc' = "decoded"
            /\ UNCHANGED loop
       ELSE \E r \in {loop.at[pos + 1].value} :
              IF r.st = "ok"
              THEN /\ loop' = [loop EXCEPT !.values = Append(@, r.val), !.turns = @ + 1]
                   /\ pos' = r.pos
                   /\ UNCHANGED <<pc, decoded>>
              ELSE /\ decoded' = [st |-> r.st, val |-> r.val]
                   /\ pos' = r.pos
                   /\ pc' = LoopEnd(r.st)
                   /\ UNCHANGED loop
  /\ UNCHANGED <<build, src, data, encoded, torrent, magnetVars, peerVars>>

\* what an iteration of the loop of decode_dictionary decodes: a key, the
\* bytes of `pieces`, or a value
DictElement(at, p, state) ==
  IF state # <<>> /\ state[1] = STR_pieces THEN at[p + 1].bytes
  ELSE at[p + 1].value

\* one iteration of the loop of decode_dictionary: at the end of the
\* dictionary (or of the data) the map is returned and the cursor stays;
\* else a key is decoded and kept as the ParseState, or a value is decoded
\* and inserted under the key
LoopDictTurn ==
  /\ pc = "in_dict"
  /\ \E pk \in {peek(data, pos)} :
       IF pk.st = "panic"
       THEN /\ pc' = "aborted"
            /\ UNCHANGED <<pos, decoded, loop>>
       ELSE IF pk.st = "none" \/ pk.b = CH_e
       THEN /\ decoded' = [st |-> "ok", val |-> Obj(loop.values)]
            /\ pc' = "decoded"
            /\ UNCHANGED <<pos, loop>>
       ELSE \E r \in {DictElement(loop.at, pos, loop.state)} :
              IF r.st # "ok" \/ (loop.state = <<>> /\ r.val.t # "str")
              THEN /\ decoded' = [st |-> IF r.st = "ok" THEN "err" ELSE r.st, val |-> NoValue]
                   /\ pos' = r.pos
                   /\ pc' = LoopEnd(IF r.st = "ok" THEN "err" ELSE r.st)
                   /\ UNCHANGED loop
              ELSE /\ loop' =
                        IF loop.state = <<>>
                        THEN [loop EXCEPT !.state = <<r.val.s>>, !.turns = @ + 1]
                        ELSE [loop EXCEPT
                                !.state = <<>>,
                                !.turns = @ + 1,
                                !.values = MapInsert(@, loop.state[1], r.val)]
                   /\ pos' = r.pos
                   /\ UNCHANGED <<pc, decoded>>
  /\ UNCHANGED <<build, src, data, encoded, torrent, magnetVars, peerVars>>

LoopNext == LoopNew \/ LoopBegin \/ LoopListTurn \/ LoopDictTurn

\* the decoder is one call: once begun it runs to its end
LoopSpec ==
  LoopInit /\ [][LoopNext]_vars /\ WF_vars(LoopBegin \/ LoopListTurn \/ LoopDictTurn)

-----------------------------------------------------------------------------
(* Magnet URIs given to Magnet::new: the prefix, a 40 digit hex field in   *)
(* either case, then &key=value parameters whose values are written raw    *)
(* (space as '+') or percent-encoded.                                      *)

MaxParams == 2

\* the 40 hex digits of an info-hash, the first and last two in either case
HexMiddle == <<57, 102, 57, 49, 101, 54, 98, 50, 97, 101, 52, 99, 53, 52, 50, 52, 54, 56, 100, 49, 48, 55, 51, 97, 55, 49, 100, 52, 101, 97, 49, 51, 56, 55, 57, 97>>
HexFields ==
  {h1 \o HexMiddle \o h2 :
     h1 \in {<<100, 54>>, <<68, 54>>},
     h2 \in {<<55, 102>>, <<55, 70>>}}

ParamKeys == {STR_dn, STR_tr, <<120>>}
\* "", "a b", "/"
ParamValues == {<<>>, <<97, 32, 98>>, <<47>>}
ParamStyles == {"raw", "percent"}
Params == [key : ParamKeys, value : ParamValues, style : ParamStyles]
ParamSeqs == UNION {[1..m -> Params] : m \in 0..MaxParams}

RECURSIVE EscapeValue(_, _)
EscapeValue(v, style) ==
  IF Len(v) = 0 THEN <<>>
  ELSE (IF style = "percent"
        THEN <<37, HexDigit(v[1] \div 16), HexDigit(v[1] % 16)>>
        ELSE IF v[1] = 32 THEN <<43>> ELSE <<v[1]>>)
       \o EscapeValue(Tail(v), style)

RECURSIVE QueryOf(_)
QueryOf(ps) ==
  IF Len(ps) = 0 THEN <<>>
  ELSE <<38>> \o ps[1].key \o <<61>> \o EscapeValue(ps[1].value, ps[1].style)
       \o QueryOf(Tail(ps))

\* 39 hex digits
Hex39 == <<100, 54, 57, 102, 57, 49, 101, 54, 98, 50, 97, 101, 52, 99, 53, 52, 50, 52, 54, 56, 100, 49, 48, 55, 51, 97, 55, 49, 100, 52, 101, 97, 49, 51, 56, 55, 57, 97, 55>>

\* strings that are not magnet URIs: wrong or missing prefix, too short,
\* a non-hex digit or a two-byte character (e-acute) in the hash field
BadMagnets ==
  { <<>>,
    <<109, 97, 103, 110, 101, 116, 58>>,
    STR_magnet_prefix,
    STR_magnet_prefix \o Hex39,
    <<109, 97, 103, 110, 101, 116, 58, 63, 120, 116, 61, 117, 114, 110, 58, 98, 116, 105, 104, 59>> \o Hex39 \o <<102>>,
    <<77, 97, 103, 110, 101, 116, 58, 63, 120, 116, 61, 117, 114, 110, 58, 98, 116, 105, 104, 58>> \o Hex39 \o <<102>>,
    STR_magnet_prefix \o Hex39 \o <<103>>,
    STR_magnet_prefix \o <<103>> \o Hex39,
    STR_magnet_prefix \o Hex39 \o <<38>>,
    STR_magnet_prefix \o SubSeq(Hex39, 1, 38) \o <<233>>,
    STR_magnet_prefix \o <<233>> \o SubSeq(Hex39, 1, 38),
    STR_magnet_prefix \o Hex39 \o <<233>>,
    STR_magnet_prefix \o Hex39 \o <<233>> \o <<38, 100, 110, 61, 97>>,
    STR_magnet_prefix \o SubSeq(Hex39, 1, 37) \o <<233, 233>> }

MagnetSources ==
  {[kind |-> "magnet", hex |-> h, params |-> ps] : h \in HexFields, ps \in ParamSeqs}
    \cup {[kind |-> "badmagnet", raw |-> r] : r \in BadMagnets}

MagnetInputOf(s) ==
  IF s.kind = "magnet" THEN STR_magnet_prefix \o s.hex \o QueryOf(s.params)
  ELSE s.raw

-----------------------------------------------------------------------------
(* The magnet_parse command: Magnet::new on the argument, then print_info. *)

MagnetInit ==
  /\ build \in Builds
  /\ src \in MagnetSources
  /\ uri = MagnetInputOf(src)
  /\ magnet = NoMagnet
  /\ printed = NoPrinted
  /\ wire = <<>>
  /\ trace = <<>>
  /\ sess = NoSession
  /\ pc = "ready"
  /\ data = <<>>
  /\ pos = 0
  /\ decoded = NoDecoded
  /\ encoded = NoEncoded
  /\ torrent = NoTorrent
  /\ loop = NoLoop

MagnetParse ==
  /\ pc = "ready"
  /\ \E r \in {Magnet_new(uri)} :
        /\ magnet' = r
        /\ pc' = IF r.st = "panic" THEN "aborted" ELSE "parsed"
  /\ UNCHANGED <<build, src, codecVars, uri, printed, peerVars>>

MagnetPrintInfo ==
  /\ pc = "parsed"
  /\ magnet.st = "ok"
  /\ printed' = print_info(magnet)
  /\ pc' = "printed"
  /\ UNCHANGED <<build, src, codecVars, uri, magnet, peerVars>>

MagnetNext == MagnetParse \/ MagnetPrintInfo

MagnetSpec == MagnetInit /\ [][MagnetNext]_vars

-----------------------------------------------------------------------------
(* Peers.  A peer is what it sends: its handshake, then a sequence of      *)
(* framed messages, then the end of the stream.  How the stream is cut     *)
(* into the chunks a read returns is left open.                            *)

MaxMsgs == 2

\* the info-hash the client asks for, and another one
ClientInfoHash == [k \in 1..20 |-> 17]
OtherInfoHash == [k \in 1..20 |-> 34]
\* the peer's own id
RemotePeerId == [k \in 1..20 |-> 66]

\* the peer's handshake: proto "ok", "bad" (a wrong first byte) or "short"
\* (the stream ends after 30 bytes)
HandshakeKinds == [proto : {"ok", "bad", "short"}, ext : BOOLEAN, same_hash : BOOLEAN]
GoodHandshake == [proto |-> "ok", ext |-> FALSE, same_hash |-> TRUE]

PeerHandshakeBytes(hs) ==
  LET b == HandshakeMessage_to_bytes(
             HandshakeMessage_with_ext(
               IF hs.same_hash THEN ClientInfoHash ELSE OtherInfoHash,
               RemotePeerId,
               IF hs.ext THEN <<0, 0, 0, 0, 0, 16, 0, 0>> ELSE <<0, 0, 0, 0, 0, 0, 0, 0>>))
  IN  IF hs.proto = "ok" THEN b
      ELSE IF hs.proto = "bad" THEN <<18>> \o Tail(b)
      ELSE SubSeq(b, 1, 30)

\* framed messages
Frame(id, body) == PieceMessage_to_bytes(PieceMessage(id, body))
KEEP_ALIVE == <<0, 0, 0, 0>>
UNCHOKE == Frame(MSG_UNCHOKE, <<>>)
CHOKE == Frame(MSG_CHOKE, <<>>)
HAVE_0 == Frame(MSG_HAVE, <<0, 0, 0, 0>>)
\* a one byte bitfield, and a five byte bitfield whose bits spell the
\* bytes of an unchoke frame
BITFIELD_1 == Frame(MSG_BITFIELD, <<96>>)
BITFIELD_5 == Frame(MSG_BITFIELD, UNCHOKE)

IsBitfield(m) == Len(m) >= 5 /\ from_be_bytes(m) = Len(m) - 4 /\ m[5] = MSG_BITFIELD
IsUnchoke(m) == m = UNCHOKE

CoreMessages == {KEEP_ALIVE, UNCHOKE, CHOKE, HAVE_0, BITFIELD_1, BITFIELD_5}

TorrentPeers ==
  {[kind |-> "torrent_peer", hs |-> GoodHandshake, msgs |-> ms] :
     ms \in UNION {[1..m -> CoreMessages] : m \in 0..MaxMsgs}}
    \cup {[kind |-> "torrent_peer", hs |-> GoodHandshake, msgs |-> ms] :
            ms \in {<<KEEP_ALIVE, BITFIELD_1, UNCHOKE>>,
                    <<BITFIELD_1, KEEP_ALIVE, UNCHOKE>>,
                    <<BITFIELD_1, CHOKE, UNCHOKE>>}}
    \cup {[kind |-> "torrent_peer", hs |-> h, msgs |-> <<BITFIELD_1, UNCHOKE>>] :
            h \in HandshakeKinds}

\* the extension handshake a peer answers with: its id for ut_metadata
\* and the size of the metadata
ExtensionDict(id, size) ==
  BDict(<< <<STR_m, BDict(<< <<STR_ut_metadata, BInt(I64(FALSE, id))>> >>)>>,
           <<STR_metadata_size, BInt(I64(FALSE, size))>> >>)

ExtensionFrame(tree) == Frame(MESSAGE_ID, <<0>> \o Canonical(tree))

\* the info dictionary the client's info-hash names, and another one
GenuineInfo == Canonical(InfoTree(<<97>>, <<0>>))
ForgedInfo == Canonical(InfoTree(<<98>>, <<0>>))

\* the SHA-1 of the metadata a peer may serve
MetadataSha1(payload) == IF payload = GenuineInfo THEN ClientInfoHash ELSE OtherInfoHash

\* the sizes a peer advertises: one piece, exactly one piece, two pieces
MetaSizes == {Len(GenuineInfo), 16384, 16385}

\* a ut_metadata frame: the dictionary, then the raw bytes in the same frame
MetadataFrame(ext_id, msg_type, payload) ==
  Frame(MESSAGE_ID,
        <<ext_id>>
          \o Canonical(BDict(<< <<STR_msg_type, BInt(I64(FALSE, msg_type))>>,
                                <<STR_piece, BInt(I64(FALSE, 0))>>,
                                <<STR_total_size, BInt(I64(FALSE, Len(payload)))>> >>))
          \o payload)

BITFIELD_0 == Frame(MSG_BITFIELD, <<>>)

GoodExtension == ExtensionFrame(ExtensionDict(2, Len(GenuineInfo)))
GoodData == MetadataFrame(EXT_METADATA_ID, MSG_TYPE_DATA, GenuineInfo)

ExtensionReplies ==
  {ExtensionFrame(ExtensionDict(2, size)) : size \in MetaSizes}
    \cup {ExtensionFrame(BDict(<< <<STR_m, BDict(<<>>)>> >>)),
          ExtensionFrame(BDict(<< <<STR_metadata_size, BInt(I64(FALSE, 7))>> >>)),
          Frame(MESSAGE_ID, <<>>),
          UNCHOKE}

DataReplies ==
  {<<GoodData>>,
   <<MetadataFrame(EXT_METADATA_ID, MSG_TYPE_DATA, ForgedInfo)>>,
   <<MetadataFrame(EXT_METADATA_ID, MSG_TYPE_REJECT, <<>>)>>,
   <<MetadataFrame(3, MSG_TYPE_DATA, GenuineInfo)>>,
   <<MetadataFrame(EXT_METADATA_ID, MSG_TYPE_DATA, <<CH_i, 55, CH_e>>)>>,
   <<KEEP_ALIVE, GoodData>>,
   <<>>}

\* size is the metadata_size the peer's extension handshake advertises
MagnetPeer(hs, msgs, rm, size) ==
  [kind |-> "magnet_peer", hs |-> hs, msgs |-> msgs, request_metadata |-> rm,
   meta_size |-> size]

ExtHandshake == [proto |-> "ok", ext |-> TRUE, same_hash |-> TRUE]

MagnetPeers ==
  {MagnetPeer(h, pre \o <<first, GoodExtension, GoodData>>, TRUE, Len(GenuineInfo)) :
     h \in {k \in HandshakeKinds : k.proto = "ok"},
     pre \in {<<>>, <<KEEP_ALIVE>>},
     first \in {BITFIELD_1, BITFIELD_0, UNCHOKE}}
    \cup {MagnetPeer(ExtHandshake, <<BITFIELD_1, e, GoodData>>, rm, 0) :
            e \in ExtensionReplies \ {ExtensionFrame(ExtensionDict(2, size)) :
                                        size \in MetaSizes},
            rm \in BOOLEAN}
    \cup {MagnetPeer(ExtHandshake, pre \o <<BITFIELD_1>> \o mid \o <<GoodExtension>>,
                     FALSE, Len(GenuineInfo)) :
            pre \in {<<>>, <<KEEP_ALIVE>>}, mid \in {<<>>, <<KEEP_ALIVE>>}}
    \cup {MagnetPeer(ExtHandshake,
                     <<BITFIELD_1, ExtensionFrame(ExtensionDict(2, size))>> \o d, TRUE, size) :
            size \in MetaSizes, d \in DataReplies}

RECURSIVE Flatten(_)
Flatten(ms) == IF Len(ms) = 0 THEN <<>> ELSE ms[1] \o Flatten(Tail(ms))

\* everything the peer sends
StreamOf(s) ==
  PeerHandshakeBytes(s.hs) \o (IF s.hs.proto = "short" THEN <<>> ELSE Flatten(s.msgs))

-----------------------------------------------------------------------------
(* http/torrent.rs: connect_peer, one action per await.                    *)

\* what AsyncReadExt::read may return: 0 at the end of the stream, else
\* any number of the bytes still to come, up to the 2048 of the buffer
ReadSizes(w) ==
  IF Len(w) = 0 THEN {0} ELSE 1..(IF Len(w) < 2048 THEN Len(w) ELSE 2048)

\* bytes read so far
Consumed(w) == Len(StreamOf(src)) - Len(w)

\* the name a trace gives a parsed message
MessageName(r) ==
  IF r.st # "ok" THEN "invalid"
  ELSE IF r.msg.id = -1 THEN "keep_alive"
  ELSE IF r.msg.id = MSG_CHOKE THEN "choke"
  ELSE IF r.msg.id = MSG_UNCHOKE THEN "unchoke"
  ELSE IF r.msg.id = MSG_INTERESTED THEN "interested"
  ELSE IF r.msg.id = MSG_HAVE THEN "have"
  ELSE IF r.msg.id = MSG_BITFIELD THEN "bitfield"
  ELSE IF r.msg.id = MESSAGE_ID THEN "extension"
  ELSE "other"

Sent(what, bytes) == [ev |-> "send", what |-> what, bytes |-> bytes, at |-> 0]
\* a read of n bytes at offset `at` of the stream, and what it was parsed as
Received(what, at, n) == [ev |-> "recv", what |-> what, bytes |-> n, at |-> at]

PeerInit ==
  /\ build \in Builds
  /\ src \in TorrentPeers \cup MagnetPeers
  /\ wire = StreamOf(src)
  /\ trace = <<>>
  /\ sess = NoSession
  /\ pc = "connect"
  /\ data = <<>>
  /\ pos = 0
  /\ decoded = NoDecoded
  /\ encoded = NoEncoded
  /\ torrent = NoTorrent
  /\ loop = NoLoop
  /\ uri = <<>>
  /\ magnet = NoMagnet
  /\ printed = NoPrinted

\* the message to expect next (bitfield, then unchoke) read with one read()
\* and parsed from whatever that read returned
ExpectMessage(id, next) ==
  \E n \in ReadSizes(wire) :
    \E r \in {PieceMessage_from_bytes(SubSeq(wire, 1, n))} :
      /\ wire' = SubSeq(wire, n + 1, Len(wire))
      /\ trace' = Append(trace, Received(MessageName(r),
                                         Consumed(wire), n))
      /\ pc' = IF n = 0 \/ r.st # "ok" \/ r.msg.id # id THEN "failed" ELSE next

\* HandshakeMessage::new(..).to_bytes(); write_all
TorrentSendHandshake ==
  /\ src.kind = "torrent_peer"
  /\ pc = "connect"
  /\ trace' = Append(trace, Sent("handshake",
                 HandshakeMessage_to_bytes(HandshakeMessage_new(ClientInfoHash, PEER_ID))))
  /\ pc' = "sent_handshake"
  /\ UNCHANGED <<build, src, codecVars, magnetVars, wire, sess>>

\* read_exact of the 68 bytes; HandshakeMessage::from_bytes, whose result
\* is dropped
TorrentRecvHandshake ==
  /\ src.kind = "torrent_peer"
  /\ pc = "sent_handshake"
  /\ IF Len(wire) < HandshakeMessage_length
     THEN /\ wire' = <<>>
          /\ pc' = "failed"
          /\ UNCHANGED trace
     ELSE \E r \in {HandshakeMessage_from_bytes(SubSeq(wire, 1, HandshakeMessage_length))} :
            /\ wire' = SubSeq(wire, HandshakeMessage_length + 1, Len(wire))
            /\ trace' = Append(trace, Received("handshake", 0, HandshakeMessage_length))
            /\ pc' = IF r.st = "ok" THEN "handshook" ELSE "failed"
  /\ UNCHANGED <<build, src, codecVars, magnetVars, sess>>

\* Wait for Bitfield
TorrentWaitBitfield ==
  /\ src.kind = "torrent_peer"
  /\ pc = "handshook"
  /\ ExpectMessage(MSG_BITFIELD, "bitfield_known")
  /\ UNCHANGED <<build, src, codecVars, magnetVars, sess>>

\* Send Interested
TorrentSendInterested ==
  /\ src.kind = "torrent_peer"
  /\ pc = "bitfield_known"
  /\ trace' = Append(trace, Sent("interested", PieceMessage_to_bytes(PieceMessage_new_interested)))
  /\ pc' = "interested"
  /\ UNCHANGED <<build, src, codecVars, magnetVars, wire, sess>>

\* Wait for Unchoke; Ok(socket)
TorrentWaitUnchoke ==
  /\ src.kind = "torrent_peer"
  /\ pc = "interested"
  /\ ExpectMessage(MSG_UNCHOKE, "ready")
  /\ UNCHANGED <<build, src, codecVars, magnetVars, sess>>

-----------------------------------------------------------------------------
(* http/magnet.rs: connect_peer, one action per await.                     *)

Outcome(st, next) == IF st = "ok" THEN next ELSE IF st = "panic" THEN "aborted" ELSE "failed"

\* HandshakeMessage::with_ext(.., [0, 0, 0, 0, 0, 0x10, 0, 0]).to_bytes();
\* write_all
MagnetSendHandshake ==
  /\ src.kind = "magnet_peer"
  /\ pc = "connect"
  /\ trace' = Append(trace, Sent("handshake",
                 HandshakeMessage_to_bytes(
                   HandshakeMessage_with_ext(ClientInfoHash, PEER_ID,
                                             <<0, 0, 0, 0, 0, 16, 0, 0>>))))
  /\ pc' = "sent_handshake"
  /\ UNCHANGED <<build, src, codecVars, magnetVars, wire, sess>>

\* read_exact of the 68 bytes; HandshakeMessage::from_bytes, kept as
\* handshake_resp
MagnetRecvHandshake ==
  /\ src.kind = "magnet_peer"
  /\ pc = "sent_handshake"
  /\ IF Len(wire) < HandshakeMessage_length
     THEN /\ wire' = <<>>
          /\ pc' = "failed"
          /\ UNCHANGED <<trace, sess>>
     ELSE \E r \in {HandshakeMessage_from_bytes(SubSeq(wire, 1, HandshakeMessage_length))} :
            /\ wire' = SubSeq(wire, HandshakeMessage_length + 1, Len(wire))
            /\ trace' = Append(trace, Received("handshake", 0, HandshakeMessage_length))
            /\ sess' = IF r.st = "ok" THEN [sess EXCEPT !.handshake_resp = r.msg] ELSE sess
            /\ pc' = IF r.st = "ok" THEN "handshook" ELSE "failed"
  /\ UNCHANGED <<build, src, codecVars, magnetVars>>

\* Wait for Bitfield: read_exact of 5 bytes, then of length - 1 bytes, then
\* PieceMessage::from_bytes on the 5 bytes.  A length of 0 makes the u32
\* subtraction overflow: a panic where overflow is checked, else 2^32 - 1
\* bytes are awaited and the stream ends first.
MagnetWaitBitfield ==
  /\ src.kind = "magnet_peer"
  /\ pc = "handshook"
  /\ IF Len(wire) < 5
     THEN /\ wire' = <<>>
          /\ pc' = "failed"
          /\ UNCHANGED trace
     ELSE IF from_be_bytes(wire) = 0
     THEN /\ wire' = IF Checked THEN SubSeq(wire, 6, Len(wire)) ELSE <<>>
          /\ pc' = IF Checked THEN "aborted" ELSE "failed"
          /\ UNCHANGED trace
     ELSE IF Len(wire) - 5 < from_be_bytes(wire) - 1
     THEN /\ wire' = <<>>
          /\ pc' = "failed"
          /\ UNCHANGED trace
     ELSE \E r \in {PieceMessage_from_bytes(SubSeq(wire, 1, 5))} :
            /\ wire' = SubSeq(wire, 5 + from_be_bytes(wire), Len(wire))
            /\ trace' = Append(trace, Received(MessageName(r),
                                               Consumed(wire), 4 + from_be_bytes(wire)))
            /\ pc' = IF r.st = "ok" /\ r.msg.id = MSG_BITFIELD
                     THEN "bitfield_known" ELSE "failed"
  /\ UNCHANGED <<build, src, codecVars, magnetVars, sess>>

\* the extension handshake sent whatever the peer's reserved bits say
MagnetExtHandshake_NoGate ==
  /\ src.kind = "magnet_peer"
  /\ pc = "bitfield_known"
  /\ trace' = Append(trace, Sent("extension",
                                 PieceMessage_to_bytes(PieceMessage_new_extension)))
  /\ pc' = "ext_sent"
  /\ UNCHANGED <<build, src, codecVars, magnetVars, wire, sess>>

\* "Only do the extension handshake if peer support": has_ext, then
\* PieceMessage::new_extension(&EXT_ID_MAP).to_bytes(); write
MagnetExtHandshake ==
  /\ src.kind = "magnet_peer"
  /\ pc = "bitfield_known"
  /\ IF ~has_ext(sess.handshake_resp)
     THEN /\ pc' = "failed"
          /\ UNCHANGED trace
     ELSE /\ trace' = Append(trace, Sent("extension",
                                         PieceMessage_to_bytes(PieceMessage_new_extension)))
          /\ pc' = "ext_sent"
  /\ UNCHANGED <<build, src, codecVars, magnetVars, wire, sess>>

\* the extension handshake response, parsed from one read(); without
\* request_metadata the result is returned here
MagnetRecvExtension ==
  /\ src.kind = "magnet_peer"
  /\ pc = "ext_sent"
  /\ \E n \in ReadSizes(wire) :
       \E r \in {ExtensionReply(PieceMessage_from_bytes(SubSeq(wire, 1, n)))} :
         /\ wire' = SubSeq(wire, n + 1, Len(wire))
         /\ trace' = Append(trace, Received(IF r.st = "ok" THEN "extension" ELSE "invalid",
                                            Consumed(wire), n))
         /\ sess' = IF r.st = "ok" THEN [sess EXCEPT !.ut_metadata_id = r.ut_metadata_id]
                    ELSE sess
         /\ pc' = Outcome(r.st, IF src.request_metadata THEN "ext_known" ELSE "ready")
  /\ UNCHANGED <<build, src, codecVars, magnetVars>>

\* metadata::Message::new(ut_metadata_id, Request).to_bytes(); write
MagnetRequestMetadata ==
  /\ src.kind = "magnet_peer"
  /\ pc = "ext_known"
  /\ trace' = Append(trace, Sent("request",
                                 Message_to_bytes(sess.ut_metadata_id, MSG_TYPE_REQUEST)))
  /\ pc' = "requested"
  /\ UNCHANGED <<build, src, codecVars, magnetVars, wire, sess>>

\* read_u32, read_exact of that many bytes, parse_torrent_data; the result
\* is returned
MagnetRecvMetadata ==
  /\ src.kind = "magnet_peer"
  /\ pc = "requested"
  /\ IF Len(wire) < 4 \/ Len(wire) - 4 < from_be_bytes(wire)
     THEN /\ wire' = <<>>
          /\ pc' = "failed"
          /\ UNCHANGED <<trace, sess>>
     ELSE \E r \in {parse_torrent_data(from_be_bytes(wire),
                                       SubSeq(wire, 5, 4 + from_be_bytes(wire)))} :
            /\ wire' = SubSeq(wire, 5 + from_be_bytes(wire), Len(wire))
            /\ trace' = Append(trace, Received("data", Consumed(wire), 4 + from_be_bytes(wire)))
            /\ sess' = IF r.st = "ok" THEN [sess EXCEPT !.torrent_info = Some(r.info)]
                       ELSE sess
            /\ pc' = Outcome(r.st, "ready")
  /\ UNCHANGED <<build, src, codecVars, magnetVars>>

PeerNext ==
  \/ TorrentSendHandshake
  \/ TorrentRecvHandshake
  \/ TorrentWaitBitfield
  \/ TorrentSendInterested
  \/ TorrentWaitUnchoke
  \/ MagnetSendHandshake
  \/ MagnetRecvHandshake
  \/ MagnetWaitBitfield
  \/ MagnetExtHandshake
  \/ MagnetRecvExtension
  \/ MagnetRequestMetadata
  \/ MagnetRecvMetadata

PeerSpec == PeerInit /\ [][PeerNext]_vars

-----------------------------------------------------------------------------
(* http/magnet.rs: handshake.  The tracker is asked for peers, the body is *)
(* decoded and deserialized as PeerInfo, and connect_peer is run against   *)
(* the first peer.  PeerInfo is a type of the http module (spec 4.3): the  *)
(* value of `peers` is a byte string of 6 bytes per peer, 4 of IPv4        *)
(* address and 2 of big-endian port.  The tracker's answer is a script:    *)
(* an HTTP status (0 when the request itself fails) and a body.            *)

\* "interval"
STR_interval == <<105, 110, 116, 101, 114, 118, 97, 108>>
\* "http://t/a" and "t/a"
STR_tracker_url == <<104, 116, 116, 112, 58, 47, 47, 116, 47, 97>>
STR_relative_url == <<116, 47, 97>>
\* "http://"
STR_http == <<104, 116, 116, 112, 58, 47, 47>>

StatusCode_OK == 200

\* Url::parse as far as handshake depends on it: an absolute http URL is
\* accepted, a relative reference has no base and is an error
Url_parse(s) == IF starts_with(s, STR_http) /\ Len(s) > Len(STR_http) THEN "ok" ELSE "err"

RECURSIVE CompactPeers(_)
CompactPeers(b) ==
  IF Len(b) < 6 THEN <<>>
  ELSE <<[ip |-> SubSeq(b, 1, 4), port |-> b[5] * 256 + b[6]]>>
         \o CompactPeers(SubSeq(b, 7, Len(b)))

\* serde_json::from_value::<PeerInfo>
PeerInfo_from_value(v) ==
  IF v.t # "obj" THEN [st |-> "err", peers |-> <<>>]
  ELSE IF ~MapHas(v.m, STR_peers) THEN [st |-> "err", peers |-> <<>>]
  ELSE IF MapGet(v.m, STR_peers).t # "str" THEN [st |-> "err", peers |-> <<>>]
  ELSE IF Len(Utf8(MapGet(v.m, STR_peers).s)) % 6 # 0 THEN [st |-> "err", peers |-> <<>>]
  ELSE [st |-> "ok", peers |-> CompactPeers(Utf8(MapGet(v.m, STR_peers).s))]

\* the bound on the peers a tracker lists
MaxPeers == 2

\* 10.0.0.n:6667
PeerAddr(n) == <<10, 0, 0, n, 26, 11>>

RECURSIVE PeerAddrs(_)
PeerAddrs(n) == IF n = 0 THEN <<>> ELSE PeerAddrs(n - 1) \o PeerAddr(n)

TrackerBody(peers) ==
  Canonical(BDict(<< <<STR_interval, BInt(I64(FALSE, 60))>>,
                     <<STR_peers, BStr(peers)>> >>))

\* bodies with 0 .. MaxPeers peers, with half a peer, with peers of the
\* wrong type, without peers, not a dictionary, cut short, with a byte no
\* bencode value starts with, and empty
TrackerBodies ==
  {TrackerBody(PeerAddrs(n)) : n \in 0..MaxPeers}
    \cup {TrackerBody(<<10, 0, 0>>),
          Canonical(BDict(<< <<STR_peers, BInt(I64(FALSE, 7))>> >>)),
          Canonical(BDict(<< <<STR_interval, BInt(I64(FALSE, 60))>> >>)),
          <<CH_i, 55, CH_e>>,
          SubSeq(TrackerBody(PeerAddrs(1)), 1, 25),
          <<120>>,
          <<>>}

TrackerReplies ==
  [status : {StatusCode_OK}, body : TrackerBodies]
    \cup {[status |-> 404, body |-> TrackerBody(PeerAddrs(1))],
          [status |-> 0, body |-> <<>>]}

\* the magnet handed to handshake
HandshakeMagnets ==
  {[NoMagnet EXCEPT !.st = "ok", !.info_hash = ClientInfoHash, !.tracker_url = t] :
     t \in {None, Some(STR_relative_url), Some(STR_tracker_url)}}

\* what the first peer of the list does when it is connected to
HandshakePeers ==
  {[kind |-> "magnet_peer", hs |-> ExtHandshake, msgs |-> <<BITFIELD_1, GoodExtension>> \o d,
    request_metadata |-> rm, meta_size |-> Len(GenuineInfo), reply |-> r] :
     d \in {<<>>, <<GoodData>>}, rm \in BOOLEAN, r \in TrackerReplies}

HandshakeInit ==
  /\ build \in Builds
  /\ src \in HandshakePeers
  /\ magnet \in HandshakeMagnets
  /\ wire = StreamOf(src)
  /\ trace = <<>>
  /\ sess = NoSession
  /\ pc = "start"
  /\ data = <<>>
  /\ pos = 0
  /\ decoded = NoDecoded
  /\ encoded = NoEncoded
  /\ torrent = NoTorrent
  /\ loop = NoLoop
  /\ uri = <<>>
  /\ printed = NoPrinted

\* the tracker URL of the magnet, Url::parse, reqwest::get and the status
\* of the response
HandshakeAnnounce ==
  /\ pc = "start"
  /\ pc' = IF ~magnet.tracker_url.some THEN "failed"
           ELSE IF Url_parse(magnet.tracker_url.v) # "ok" THEN "failed"
           ELSE IF src.reply.status = 0 THEN "failed"
           ELSE IF src.reply.status # StatusCode_OK THEN "failed"
           ELSE "announced"
  /\ UNCHANGED <<build, src, codecVars, magnetVars, peerVars>>

\* resp.bytes(), decode_bencoded_value, from_value::<PeerInfo>, and
\* &peer_info.peers[0]: indexing an empty Vec panics
HandshakePeerInfo ==
  /\ pc = "announced"
  /\ \E r \in {decode_bencoded_value(src.reply.body, 0)} :
       /\ data' = src.reply.body
       /\ pos' = r.pos
       /\ decoded' = [st |-> r.st, val |-> r.val]
       /\ pc' = IF r.st # "ok" THEN Outcome(r.st, "failed")
                ELSE IF PeerInfo_from_value(r.val).st # "ok" THEN "failed"
                ELSE IF Len(PeerInfo_from_value(r.val).peers) = 0 THEN "aborted"
                ELSE "connect"
  /\ UNCHANGED <<build, src, encoded, torrent, loop, magnetVars, peerVars>>

HandshakeNext ==
  \/ HandshakeAnnounce
  \/ HandshakePeerInfo
  \/ MagnetSendHandshake
  \/ MagnetRecvHandshake
  \/ MagnetWaitBitfield
  \/ MagnetExtHandshake
  \/ MagnetRecvExtension
  \/ MagnetRequestMetadata
  \/ MagnetRecvMetadata

HandshakeSpec == HandshakeInit /\ [][HandshakeNext]_vars

-----------------------------------------------------------------------------
(* http/magnet.rs: metadata::Message::parse_torrent_data on its own, on    *)
(* frames of every shape: the message id, the extension id, what follows   *)
(* them, and a declared length that is the frame's length or off by one.   *)

\* the dictionary of a ut_metadata message with the given msg_type
MetadataDict(msg_type, size) ==
  Canonical(BDict(<< <<STR_msg_type, BInt(msg_type)>>,
                     <<STR_piece, BInt(I64(FALSE, 0))>>,
                     <<STR_total_size, BInt(I64(FALSE, size))>> >>))

\* Request, Data, Reject, an unknown type, a negative one, and one that is
\* Data only after the cast to u8
MsgTypes == {I64(FALSE, 0), I64(FALSE, 1), I64(FALSE, 2), I64(FALSE, 3),
             I64(TRUE, 1), I64(FALSE, 257)}

\* what may follow the dictionary: the info dictionary, nothing, an integer
Payloads == {GenuineInfo, <<>>, <<CH_i, 55, CH_e>>}

\* what follows the two id bytes
FrameBodies ==
  {MetadataDict(t, Len(p)) \o p : t \in MsgTypes, p \in Payloads}
    \cup {Canonical(BDict(<< <<STR_piece, BInt(I64(FALSE, 0))>> >>)) \o GenuineInfo,
          Canonical(BDict(<< <<STR_msg_type, BStr(<<49>>)>> >>)) \o GenuineInfo,
          <<CH_i, 55, CH_e>> \o GenuineInfo,
          <<49, CH_colon, 97>>,
          <<CH_l, CH_e>>,
          <<CH_d>>,
          <<CH_e>>,
          <<120>>,
          <<>>}

Frames ==
  [kind : {"frame"}, id : {MESSAGE_ID, MSG_BITFIELD}, ext_id : {EXT_METADATA_ID, 3},
   body : FrameBodies, off : {-1, 0, 1}]

FrameBytes(s) == <<s.id, s.ext_id>> \o s.body
DeclaredLength(s) == Len(FrameBytes(s)) + s.off

MetadataInit ==
  /\ build \in Builds
  /\ src \in Frames
  /\ data = FrameBytes(src)
  /\ pos = 0
  /\ pc = "start"
  /\ decoded = NoDecoded
  /\ encoded = NoEncoded
  /\ torrent = NoTorrent
  /\ loop = NoLoop
  /\ uri = <<>>
  /\ magnet = NoMagnet
  /\ printed = NoPrinted
  /\ wire = <<>>
  /\ trace = <<>>
  /\ sess = NoSession

\* metadata::Message::parse_torrent_data(length, data)
MetadataParse ==
  /\ src.kind = "frame"
  /\ pc = "start"
  /\ \E r \in {parse_torrent_data(DeclaredLength(src), data)} :
       /\ sess' = IF r.st = "ok" THEN [sess EXCEPT !.torrent_info = Some(r.info)] ELSE sess
       /\ pc' = Outcome(r.st, "ready")
  /\ UNCHANGED <<build, src, codecVars, magnetVars, wire, trace>>

MetadataNext == MetadataParse

MetadataSpec == MetadataInit /\ [][MetadataNext]_vars

-----------------------------------------------------------------------------
(* Reading emitted bencode back: where a value ends, and whether every     *)
(* dictionary in it has strictly ascending keys.                           *)

FirstAt(b, p, ch) == CHOOSE k \in p..Len(b) : b[k] = ch /\ \A j \in p..(k - 1) : b[j] # ch

\* the octets of the byte string that starts at index p
StringAt(b, p) ==
  LET c == FirstAt(b, p, CH_colon)
      n == BigToNat([j \in 1..(c - p) |-> b[p + j - 1] - CH_0])
  IN  SubSeq(b, c + 1, c + n)

RECURSIVE ValueEnd(_, _)
RECURSIVE ItemsEnd(_, _)

\* index just past the value that starts at index p
ValueEnd(b, p) ==
  IF u8_is_digit(b[p])
  THEN FirstAt(b, p, CH_colon) + Len(StringAt(b, p)) + 1
  ELSE IF b[p] = CH_i THEN FirstAt(b, p, CH_e) + 1
  ELSE ItemsEnd(b, p + 1)

ItemsEnd(b, p) == IF b[p] = CH_e THEN p + 1 ELSE ItemsEnd(b, ValueEnd(b, p))

RECURSIVE KeysAscending(_, _)
RECURSIVE ListKeysAscending(_, _)
RECURSIVE DictKeysAscending(_, _, _)

KeysAscending(b, p) ==
  IF b[p] = CH_l THEN ListKeysAscending(b, p + 1)
  ELSE IF b[p] = CH_d THEN DictKeysAscending(b, p + 1, <<>>)
  ELSE TRUE

ListKeysAscending(b, p) ==
  \/ b[p] = CH_e
  \/ KeysAscending(b, p) /\ ListKeysAscending(b, ValueEnd(b, p))

\* prev is <<>> or <<the key emitted before>>
DictKeysAscending(b, p, prev) ==
  \/ b[p] = CH_e
  \/ LET key == StringAt(b, p)
         q   == ValueEnd(b, p)
     IN  /\ prev = <<>> \/ LexLess(prev[1], key)
         /\ KeysAscending(b, q)
         /\ DictKeysAscending(b, ValueEnd(b, q), <<key>>)

Contains(hay, needle) ==
  \E k \in 1..(Len(hay) - Len(needle) + 1) :
     SubSeq(hay, k, k + Len(needle) - 1) = needle

-----------------------------------------------------------------------------
(* Properties                                                              *)

\* C1: round trip of the codec.  For a canonical input, decoding succeeds
\* and encoding the decoded value emits bytes identical to the input.
C1_RoundTrip ==
  src.kind = "canon" =>
    /\ decoded.st \in {"none", "ok"}
    /\ encoded.st \in {"none", "ok"}
    /\ encoded.st = "ok" => encoded.out = data

\* C2: info-hash identity.  For a torrent file, the info-hash computed by
\* Torrent::try_from is the SHA-1 of the bytes the info dictionary occupies
\* in the file.
C2_InfoHash ==
  (src.kind = "torrent" /\ pc \in {"parsed", "aborted"} /\ torrent.st # "none") =>
    /\ torrent.st = "ok"
    /\ torrent.info_hash = Sha1(Canonical(src.info))

\* C3: byte strings are raw octets.  Decoding len(S) ':' S yields a string
\* whose octets are S, and encoding it emits len(S) ':' S again.
C3_RawOctets ==
  src.kind = "bytes" =>
    /\ decoded.st # "none" =>
         /\ decoded.st = "ok"
         /\ decoded.val.t = "str"
         /\ Utf8(decoded.val.s) = src.s
    /\ encoded.st # "none" =>
         /\ encoded.st = "ok"
         /\ encoded.out = LenPrefixed(src.s)

\* C4: a `pieces` entry is reproduced exactly.  For a dictionary with a
\* key `pieces` and value S, decoding then encoding emits the key followed
\* by len(S) ':' S.
PiecesOf(t) == (CHOOSE e \in {t.d[j] : j \in 1..Len(t.d)} : e[1] = STR_pieces)[2].b

C4_PiecesExact ==
  src.kind = "pieces" =>
    /\ decoded.st \in {"none", "ok"}
    /\ encoded.st \in {"none", "ok"}
    /\ encoded.st = "ok" =>
         Contains(encoded.out, LenPrefixed(STR_pieces) \o LenPrefixed(PiecesOf(src.tree)))

\* C5: integer encoding.  An integer n is emitted as 'i', a minus sign iff
\* n is negative, the decimal digits of its magnitude, 'e'.
C5_EncodeInteger ==
  (pc = "encoded" /\ decoded.val.t = "num") =>
    encoded.out = <<CH_i>> \o Decimal(decoded.val.n) \o <<CH_e>>

\* C6: integer decoding.  For n in the signed 64-bit range, decoding
\* 'i' decimal(n) 'e' yields n and leaves the cursor just after the 'e'.
C6_DecodeInteger ==
  (src.kind = "int" /\ pc # "ready") =>
    /\ decoded.st = "ok"
    /\ decoded.val = Num(src.n)
    /\ pos = Len(data)

\* C7: non-canonical integer tokens are rejected.  A token body with a
\* leading zero (other than "0"), negative zero, no digits, or a non-digit
\* after the optional '-' is answered with an error.
NonCanonicalBody(b) ==
  LET neg    == Len(b) > 0 /\ b[1] = CH_minus
      digits == IF neg THEN Tail(b) ELSE b
  IN  \/ Len(digits) = 0
      \/ \E j \in 1..Len(digits) : ~u8_is_digit(digits[j])
      \/ Len(digits) > 1 /\ digits[1] = CH_0
      \/ neg /\ digits = <<CH_0>>

C7_RejectNonCanonical ==
  (src.kind = "token" /\ NonCanonicalBody(src.body) /\ pc # "ready") =>
    decoded.st = "err"

\* C8: sorted emission.  Whatever dictionary was decoded, also from input
\* with unordered or repeated keys, the encoder emits the keys of every
\* dictionary in strictly ascending byte-wise order, none twice.
C8_SortedEmission ==
  (pc = "encoded" /\ encoded.st = "ok") => KeysAscending(encoded.out, 1)

\* C8 witness: a dictionary decoded from input with key "b" before key "a"
\* has been encoded with both entries.
C8_Witness ==
  /\ pc = "encoded"
  /\ encoded.st = "ok"
  /\ src.kind = "pairs"
  /\ Len(src.pairs) = 2
  /\ src.pairs[1][1] = <<98>>
  /\ src.pairs[2][1] = <<97>>
  /\ Len(decoded.val.m) = 2

\* C9: truncated input is an error.  For an input that ends before the
\* value is complete, decode_bencoded_value returns an error: no value, no
\* abort.
C9_TruncatedIsError ==
  (src.kind = "trunc" /\ pc # "ready") => decoded.st = "err"

\* C10: an invalid type byte is an error value.  When the byte at the
\* cursor starts no value, decode_bencoded_value returns an error instead
\* of aborting.
C10_InvalidPrefixIsError ==
  (src.kind = "badtype" /\ pc # "ready") => decoded.st = "err"

-----------------------------------------------------------------------------
(* Magnet URIs.                                                            *)

Lower(c) == IF c >= 65 /\ c <= 90 THEN c + 32 ELSE c
LowerAll(s) == [k \in 1..Len(s) |-> Lower(s[k])]

\* the values the parameters of a URI give to a key
ValuesOf(ps, key) == {ps[k].value : k \in {j \in 1..Len(ps) : ps[j].key = key}}

\* the URI's parameters without those the parser does not know
KnownParams(ps) == SelectSeq(ps, LAMBDA q : q.key \in {STR_dn, STR_tr})

IsValueOf(opt, ps, key) ==
  IF ValuesOf(ps, key) = {} THEN opt = None
  ELSE opt.some /\ opt.v \in ValuesOf(ps, key)

\* C11: for every URI magnet:?xt=urn:btih:<40 hex>[&key=value]*, Magnet::new
\* succeeds; the hex form of its 20 byte info_hash is the hex field up to
\* case (also as print_info prints it); download_name is the value of dn
\* and tracker_url the value of tr when present, absent otherwise; and the
\* result is that of the same URI without its other parameters.
C11_MagnetParse ==
  (src.kind = "magnet" /\ pc \in {"parsed", "printed", "aborted"}) =>
    /\ magnet.st = "ok"
    /\ Len(magnet.info_hash) = 20
    /\ encode_bytes_to_string(magnet.info_hash) = LowerAll(src.hex)
    /\ IsValueOf(magnet.download_name, src.params, STR_dn)
    /\ IsValueOf(magnet.tracker_url, src.params, STR_tr)
    /\ magnet = Magnet_new(MagnetInputOf([src EXCEPT !.params = KnownParams(src.params)]))
    /\ (pc = "printed" =>
          /\ printed.hash = LowerAll(src.hex)
          /\ printed.tracker = magnet.tracker_url)

\* a URI with an upper-case hex field, a percent-encoded dn and an unknown
\* parameter has been parsed and printed
C11_Witness ==
  /\ src.kind = "magnet"
  /\ pc = "printed"
  /\ src.hex # LowerAll(src.hex)
  /\ \E j, k \in 1..Len(src.params) :
        /\ src.params[j].key = STR_dn
        /\ src.params[j].style = "percent"
        /\ src.params[j].value = <<97, 32, 98>>
        /\ src.params[k].key = <<120>>
  /\ magnet.download_name = Some(<<97, 32, 98>>)

\* the three ways the claim calls a string malformed
Malformed(s) ==
  \/ ~starts_with(s, STR_magnet_prefix)
  \/ Len(Utf8(s)) < 20 + 40
  \/ \E k \in 21..60 : HexVal(Utf8(s)[k]) < 0

\* C12: Magnet::new returns an error value, and never aborts, for every
\* string that lacks the prefix, is shorter than prefix plus 40 bytes, or
\* whose 40 bytes after the prefix are not all hex digits.
C12_MalformedIsError ==
  (src.kind \in {"magnet", "badmagnet"} /\ pc \in {"parsed", "aborted"} /\ Malformed(uri))
    => magnet.st = "err"

-----------------------------------------------------------------------------
(* Peer sessions.                                                          *)

\* where the j-th message of the peer starts in its stream
MsgStart(s, j) == Len(PeerHandshakeBytes(s.hs)) + Len(Flatten(SubSeq(s.msgs, 1, j - 1)))

Steps(t) == [k \in 1..Len(t) |-> <<t[k].ev, t[k].what>>]

\* C13: connect_peer of http/torrent.rs returns a connection only after it
\* has, in this order, sent its handshake, received the peer's 68 byte
\* handshake, received a bitfield as the peer's first message, sent
\* interested and received unchoke: the peer's first message is a bitfield
\* and the message read after interested is an unchoke message of the peer.
C13_SessionOrder ==
  (src.kind = "torrent_peer" /\ pc = "ready") =>
    /\ Steps(trace) = << <<"send", "handshake">>, <<"recv", "handshake">>,
                         <<"recv", "bitfield">>, <<"send", "interested">>,
                         <<"recv", "unchoke">> >>
    /\ trace[2].bytes = 68
    /\ Len(src.msgs) >= 1
    /\ IsBitfield(src.msgs[1])
    /\ \E j \in 2..Len(src.msgs) :
          /\ MsgStart(src, j) = trace[5].at
          /\ IsUnchoke(src.msgs[j])

IsPeer == src.kind \in {"torrent_peer", "magnet_peer"}

\* C14: when the info-hash of the peer's handshake differs from the one the
\* client sent, the session ends with an error at the handshake: it never
\* waits for the bitfield, sends interested or starts the extension
\* handshake.
C14_InfoHashCheck ==
  (IsPeer /\ src.hs.proto = "ok" /\ ~src.hs.same_hash)
    => pc \in {"connect", "sent_handshake", "failed"}

HasSent(what) == \E k \in 1..Len(trace) : trace[k].ev = "send" /\ trace[k].what = what

Terminal == {"ready", "failed", "aborted"}

\* how connect_peer of http/torrent.rs ends when every read returns exactly
\* one message of the peer
TorrentFramed(s) ==
  IF s.hs.proto # "ok" THEN "failed"
  ELSE IF Len(s.msgs) < 1 THEN "failed"
  ELSE IF MessageName(PieceMessage_from_bytes(s.msgs[1])) # "bitfield" THEN "failed"
  ELSE IF Len(s.msgs) < 2 THEN "failed"
  ELSE IF MessageName(PieceMessage_from_bytes(s.msgs[2])) # "unchoke" THEN "failed"
  ELSE "ready"

\* the same for connect_peer of http/magnet.rs
MagnetFramed(s) ==
  IF s.hs.proto # "ok" THEN "failed"
  ELSE IF Len(Flatten(s.msgs)) < 5 THEN "failed"
  ELSE IF s.msgs[1] = KEEP_ALIVE THEN (IF Checked THEN "aborted" ELSE "failed")
  ELSE IF MessageName(PieceMessage_from_bytes(SubSeq(s.msgs[1], 1, 5))) # "bitfield"
       THEN "failed"
  ELSE IF ~s.hs.ext THEN "failed"
  ELSE IF Len(s.msgs) < 2 THEN "failed"
  ELSE IF ExtensionReply(PieceMessage_from_bytes(s.msgs[2])).st # "ok"
       THEN Outcome(ExtensionReply(PieceMessage_from_bytes(s.msgs[2])).st, "ready")
  ELSE IF ~s.request_metadata THEN "ready"
  ELSE IF Len(s.msgs) < 3 THEN "failed"
  ELSE Outcome(parse_torrent_data(Len(s.msgs[3]) - 4,
                                  SubSeq(s.msgs[3], 5, Len(s.msgs[3]))).st, "ready")

FramedOutcome(s) == IF s.kind = "torrent_peer" THEN TorrentFramed(s) ELSE MagnetFramed(s)

\* C16: each message after the handshake is parsed from exactly the bytes
\* its length prefix announces, so however the peer's stream is cut into
\* read chunks the session ends as it does when every read returns exactly
\* one message.
C16_ExactFraming ==
  (IsPeer /\ pc \in Terminal) => pc = FramedOutcome(src)

\* every read after the handshake returned exactly one message of the peer
\* (or nothing, at the end of the stream)
AlignedRun ==
  \A k \in 1..Len(trace) :
    (trace[k].ev = "recv" /\ trace[k].what # "handshake") =>
      \/ trace[k].bytes = 0
      \/ \E j \in 1..Len(src.msgs) :
            /\ MsgStart(src, j) = trace[k].at
            /\ Len(src.msgs[j]) = trace[k].bytes

WithoutKeepAlives(ms) == SelectSeq(ms, LAMBDA m : m # KEEP_ALIVE)

\* C17: a keep-alive received after the handshake, also before the
\* bitfield, is consumed and changes nothing: a session whose reads each
\* return one message ends as it does for the same peer without its
\* keep-alives.
C17_KeepAlive ==
  (IsPeer /\ pc \in Terminal /\ AlignedRun /\ src.hs.proto = "ok"
     /\ \E j \in 1..Len(src.msgs) : src.msgs[j] = KEEP_ALIVE)
    => pc = FramedOutcome([src EXCEPT !.msgs = WithoutKeepAlives(src.msgs)])

-----------------------------------------------------------------------------
(* ut_metadata.                                                            *)

\* the metadata payloads of the well-formed Data frames a peer serves
ServedInfos == {GenuineInfo, ForgedInfo}

\* the last read took exactly the well-formed Data frame that carries p
DataArrived(p) ==
  /\ src.kind = "magnet_peer"
  /\ Len(trace) > 0
  /\ trace[Len(trace)].ev = "recv"
  /\ trace[Len(trace)].what = "data"
  /\ \E j \in 1..Len(src.msgs) :
        /\ MsgStart(src, j) = trace[Len(trace)].at
        /\ src.msgs[j] = MetadataFrame(EXT_METADATA_ID, MSG_TYPE_DATA, p)

\* C18: for a well-formed Data frame (id 20, the client's extension id, the
\* dictionary with msg_type 1, piece and total_size, then the bencoded info
\* dictionary in the same frame) parse_torrent_data returns the torrent
\* info decoded from the bytes that follow the dictionary.
C18_DataParsing ==
  \A p \in ServedInfos :
    DataArrived(p) =>
      /\ pc = "ready"
      /\ sess.torrent_info = Some(decode_bencoded_value(p, 0).val)

\* the piece a sent ut_metadata request names
PieceOfRequest(bytes) ==
  BigToNat(MapGet(decode_bencoded_value(SubSeq(bytes, 7, Len(bytes)), 0).val.m,
                  STR_piece).n.mag)

RequestedPieces ==
  {PieceOfRequest(trace[k].bytes) :
     k \in {j \in 1..Len(trace) : trace[j].ev = "send" /\ trace[j].what = "request"}}

DataReplies_Received ==
  Cardinality({k \in 1..Len(trace) : trace[k].ev = "recv" /\ trace[k].what = "data"})

\* ceil(size / 16384)
PieceCount(size) == (size + 16383) \div 16384

\* C19: when the peer advertises metadata_size M, a session that has ended
\* after the Data reply for piece 0 has sent a request for every piece
\* index 0 .. ceil(M / 16384) - 1, and it has the info dictionary only when
\* a Data reply has arrived for each of them.
C19_PieceCoverage ==
  (pc \in Terminal /\ \E p \in ServedInfos : DataArrived(p)) =>
    /\ RequestedPieces = 0..(PieceCount(src.meta_size) - 1)
    /\ (sess.torrent_info.some => DataReplies_Received >= PieceCount(src.meta_size))

-----------------------------------------------------------------------------
(* The tracker's answer.                                                   *)

\* the tracker answered 200 with a well-formed body that lists no peer,
\* and handshake has dealt with the answer
EmptyPeerList ==
  /\ src.kind = "magnet_peer"
  /\ pc \notin {"start", "announced"}
  /\ magnet.tracker_url = Some(STR_tracker_url)
  /\ src.reply = [status |-> StatusCode_OK, body |-> TrackerBody(<<>>)]

\* C21: when the tracker answers 200 with a body whose peer list is empty,
\* handshake returns an error to its caller: it does not abort and no peer
\* is connected to.
C21_EmptyPeerList ==
  EmptyPeerList => /\ pc = "failed"
                   /\ trace = <<>>

-----------------------------------------------------------------------------
(* The piece hashes of a torrent.                                          *)

\* n = ceil(length / piece_length), without the division
IsCeilDiv(n, length, piece_length) ==
  /\ piece_length > 0
  /\ n * piece_length >= length
  /\ n > 0 => (n - 1) * piece_length < length

\* C22: for every torrent that Torrent::try_from accepts, the byte length
\* of `pieces` (half the length of its hex text) is a multiple of 20, the
\* number of piece hashes is ceil(length / piece_length), and each hash is
\* 40 hex characters.
C22_PieceMetadata ==
  (pc = "parsed" /\ torrent.st = "ok") =>
    /\ (Len(torrent.pieces) \div 2) % 20 = 0
    /\ IsCeilDiv(Len(torrent.piece_hashes), BigToNat(torrent.length),
                 BigToNat(torrent.piece_length))
    /\ \A k \in 1..Len(torrent.piece_hashes) : Len(torrent.piece_hashes[k]) = 40

-----------------------------------------------------------------------------
(* The cursor and the loops of the decoder.                                *)

\* C23: whenever decode_bencoded_value succeeds on a value that starts at
\* position p (here 0, the value being the whole input), the cursor ends at
\* p plus the encoded length of the value; and every element of a list is
\* decoded and present in the result, also after a nested list or
\* dictionary.
C23_CursorAfterValue ==
  (src.kind = "canon" /\ pc # "ready" /\ decoded.st = "ok") =>
    /\ pos = Len(Canonical(src.tree))
    /\ src.tree.k = "list" =>
          (decoded.val.t = "arr" /\ Len(decoded.val.a) = Len(src.tree.l))

-----------------------------------------------------------------------------
(* Frames that are no Data message.                                        *)

\* a well-formed Data frame: id 20, the local extension id, the dictionary
\* with msg_type 1, the info dictionary, and the length declared right
WellFormedData(s) ==
  /\ s.id = MESSAGE_ID
  /\ s.ext_id = EXT_METADATA_ID
  /\ s.off = 0
  /\ s.body = MetadataDict(I64(FALSE, MSG_TYPE_DATA), Len(GenuineInfo)) \o GenuineInfo

\* C24: for every frame that is not a well-formed Data frame,
\* parse_torrent_data returns an error: it neither aborts nor returns
\* torrent info.
C24_MalformedFrameIsError ==
  (src.kind = "frame" /\ pc # "start" /\ ~WellFormedData(src)) => pc = "failed"

Ended == pc \in {"decoded", "failed", "aborted"}

Called == pc = "ready"

\* C25: decode_bencoded_value terminates on every input; an iteration of
\* the list loop or of the dictionary loop that does not end the decoder
\* advances the cursor by at least one byte, and the cursor never moves
\* backwards.
C25_DecoderTermination ==
  /\ [][pos' >= pos]_vars
  /\ [][(pc \in {"in_list", "in_dict"} /\ ~Ended') => pos' > pos]_vars
  /\ Called ~> Ended

\* a list of two or more elements, the first a list itself, decoded to its
\* end
C25_Witness ==
  /\ pc = "decoded"
  /\ loop.kind = "list"
  /\ loop.turns >= 2
  /\ loop.values[1].t = "arr"
  /\ pos = Len(data)
====
